---- MODULE Spec2Model ----
(***************************************************************************)
(* Rate limiting subsystem of backend/app/ratelimit: InMemoryStorage, the  *)
(* three strategies (token bucket, sliding window, fixed window) and the   *)
(* RateLimiter facade.                                                     *)
(*                                                                         *)
(* Times are whole seconds.  time.time() is the variable now.  The token   *)
(* bucket computes with Python floats; they are modelled as IEEE-754       *)
(* binary64 values (sign, odd mantissa, exponent) with round-to-nearest-   *)
(* even, on naturals kept as little-endian sequences of 15-bit limbs.      *)
(* Exponent overflow and subnormals cannot occur for the magnitudes the    *)
(* model reaches and are not modelled.                                     *)
(***************************************************************************)
EXTENDS Integers, Sequences, FiniteSets, TLC

\* an omitted current_time argument; a value that storage.get did not find
Omitted == -1
None == <<>>
Some(v) == <<v>>

\* ------------------------------------------------------------------------
\* Naturals of arbitrary size (mantissas of 53 bits and their products)
\* ------------------------------------------------------------------------
LimbBits == 15
Base == 2^LimbBits

RECURSIVE BNorm(_)
BNorm(a) ==
  IF a = <<>> THEN <<>>
  ELSE IF a[Len(a)] = 0 THEN BNorm(SubSeq(a, 1, Len(a) - 1)) ELSE a

RECURSIVE BFromNat(_)
BFromNat(n) == IF n = 0 THEN <<>> ELSE <<n % Base>> \o BFromNat(n \div Base)

RECURSIVE BToNat(_)
BToNat(a) == IF a = <<>> THEN 0 ELSE a[1] + Base * BToNat(Tail(a))

RECURSIVE BAddC(_, _, _)
BAddC(a, b, c) ==
  IF a = <<>> /\ b = <<>> THEN (IF c = 0 THEN <<>> ELSE <<c>>)
  ELSE LET x == (IF a = <<>> THEN 0 ELSE a[1]) + (IF b = <<>> THEN 0 ELSE b[1]) + c
       IN  <<x % Base>> \o BAddC(IF a = <<>> THEN a ELSE Tail(a),
                                 IF b = <<>> THEN b ELSE Tail(b), x \div Base)

BAdd(a, b) == BAddC(a, b, 0)

RECURSIVE BSubB(_, _, _)
BSubB(a, b, br) ==
  IF a = <<>> THEN <<>>
  ELSE LET x == a[1] - (IF b = <<>> THEN 0 ELSE b[1]) - br
       IN  <<IF x < 0 THEN x + Base ELSE x>>
             \o BSubB(Tail(a), IF b = <<>> THEN b ELSE Tail(b), IF x < 0 THEN 1 ELSE 0)

\* a - b for a >= b
BSub(a, b) == BNorm(BSubB(a, b, 0))

RECURSIVE BCmpFrom(_, _, _)
BCmpFrom(a, b, i) ==
  IF i = 0 THEN 0
  ELSE IF a[i] # b[i] THEN (IF a[i] < b[i] THEN -1 ELSE 1) ELSE BCmpFrom(a, b, i - 1)

BCmp(a, b) ==
  IF Len(a) # Len(b) THEN (IF Len(a) < Len(b) THEN -1 ELSE 1) ELSE BCmpFrom(a, b, Len(a))

RECURSIVE BMulSmallC(_, _, _)
BMulSmallC(a, k, c) ==
  IF a = <<>> THEN (IF c = 0 THEN <<>> ELSE <<c>>)
  ELSE LET x == a[1] * k + c
       IN  <<x % Base>> \o BMulSmallC(Tail(a), k, x \div Base)

\* a * k for k < Base
BMulSmall(a, k) == IF k = 0 THEN <<>> ELSE BMulSmallC(a, k, 0)

\* a * 2^k
BShl(a, k) ==
  IF a = <<>> THEN <<>>
  ELSE [i \in 1..(k \div LimbBits) |-> 0] \o BMulSmall(a, 2^(k % LimbBits))

RECURSIVE BMul(_, _)
BMul(a, b) ==
  IF a = <<>> \/ b = <<>> THEN <<>>
  ELSE BAdd(BMulSmall(a, b[1]), BShl(BMul(a, Tail(b)), LimbBits))

\* floor(a / 2^k)
BShr(a, k) ==
  LET q == k \div LimbBits
      r == k % LimbBits
      b == IF q >= Len(a) THEN <<>> ELSE SubSeq(a, q + 1, Len(a))
  IN  BNorm([i \in 1..Len(b) |->
               (b[i] \div 2^r)
               + (IF i < Len(b) THEN (b[i + 1] % 2^r) * 2^(LimbBits - r) ELSE 0)])

\* a mod 2^k
BLowBits(a, k) == BSub(a, BShl(BShr(a, k), k))

RECURSIVE NatBitLen(_)
NatBitLen(n) == IF n = 0 THEN 0 ELSE 1 + NatBitLen(n \div 2)

BBitLen(a) == IF a = <<>> THEN 0 ELSE LimbBits * (Len(a) - 1) + NatBitLen(a[Len(a)])

BBit(a, i) ==
  IF i \div LimbBits + 1 > Len(a) THEN 0
  ELSE (a[i \div LimbBits + 1] \div 2^(i % LimbBits)) % 2

RECURSIVE BTrailingZeros(_, _)
BTrailingZeros(a, i) == IF BBit(a, i) = 1 THEN i ELSE BTrailingZeros(a, i + 1)

\* the largest digit q below Base with q * d <= r, for r < d * Base
RECURSIVE BDigit(_, _, _, _)
BDigit(r, d, q, b) ==
  IF b < 0 THEN q
  ELSE IF BCmp(BMulSmall(d, q + 2^b), r) <= 0 THEN BDigit(r, d, q + 2^b, b - 1)
       ELSE BDigit(r, d, q, b - 1)

\* one limb of the quotient: r2 is the running remainder with the next limb
\* of n brought down, qd the digit found for it
BDivStepDigit(d, q, r2, qd) == <<<<qd>> \o q, BSub(r2, BMulSmall(d, qd))>>

BDivStepDown(d, q, r2) ==
  BDivStepDigit(d, q, r2,
                IF Len(d) = 1 THEN BToNat(r2) \div d[1] ELSE BDigit(r2, d, 0, LimbBits - 1))

RECURSIVE BDivStep(_, _, _, _)
BDivStep(n, d, i, qr) ==
  IF i = 0 THEN <<BNorm(qr[1]), qr[2]>>
  ELSE BDivStep(n, d, i - 1,
                BDivStepDown(d, qr[1],
                             IF qr[2] = <<>> /\ n[i] = 0 THEN <<>> ELSE <<n[i]>> \o qr[2]))

\* <<floor(n / d), n mod d>> for d > 0, one limb of the quotient at a time
BDivMod(n, d) == BDivStep(n, d, Len(n), <<<<>>, <<>>>>)

\* ------------------------------------------------------------------------
\* Python float: s * m * 2^e with m odd (zero: m = <<>>)
\* ------------------------------------------------------------------------
Precision == 53

FZero == [s |-> 1, m |-> <<>>, e |-> 0]

FCanonShift(s, M, e, tz) == [s |-> s, m |-> BShr(M, tz), e |-> e + tz]

FCanon(s, M, e) == IF M = <<>> THEN FZero ELSE FCanonShift(s, M, e, BTrailingZeros(M, 0))

\* Qh * 2^e, one unit higher when the dropped bits (c: their comparison with
\* one half, R: what a division left beyond them) round up, ties to even
FRoundUp(s, Qh, c, R, e) ==
  FCanon(s, IF c > 0 \/ (c = 0 /\ (R # <<>> \/ BBit(Qh, 0) = 1)) THEN BAdd(Qh, <<1>>) ELSE Qh, e)

FRoundDrop(s, Q, R, e, drop) ==
  FRoundUp(s, BShr(Q, drop), BCmp(BLowBits(Q, drop), BShl(<<1>>, drop - 1)), R, e + drop)

\* s * (Q + a fraction that is zero iff R is) * 2^e, for Q of more than 53 bits
FRoundQ(s, Q, R, e) == FRoundDrop(s, Q, R, e, BBitLen(Q) - Precision)

\* s * N * 2^x rounded to the nearest float, ties to even
FRoundInt(s, N, x) ==
  IF BBitLen(N) <= Precision THEN FCanon(s, N, x) ELSE FRoundQ(s, N, <<>>, x)

FRoundQuotient(s, qr, e) == FRoundQ(s, qr[1], qr[2], e)

\* the quotient is taken of N * 2^k, which gives it 54 or 55 bits
FRoundDivBy(s, N, D, x, k) ==
  FRoundQuotient(s, BDivMod(IF k >= 0 THEN BShl(N, k) ELSE N,
                            IF k >= 0 THEN D ELSE BShl(D, -k)), x - k)

\* s * (N / D) * 2^x rounded to the nearest float, ties to even
FRoundDiv(s, N, D, x) ==
  IF N = <<>> THEN FZero
  ELSE IF D = <<1>> THEN FRoundInt(s, N, x)
  ELSE FRoundDivBy(s, N, D, x, Precision + 1 + BBitLen(D) - BBitLen(N))

\* float(i)
FFromInt(i) == FCanon(IF i < 0 THEN -1 ELSE 1, BFromNat(IF i < 0 THEN -i ELSE i), 0)

FNeg(a) == IF a.m = <<>> THEN a ELSE [a EXCEPT !.s = -a.s]

\* sa * A * 2^e + sb * B * 2^e
FAddAligned(sa, A, sb, B, e) ==
  IF sa = sb THEN FRoundInt(sa, BAdd(A, B), e)
  ELSE FRoundInt(IF BCmp(A, B) >= 0 THEN sa ELSE sb,
                 IF BCmp(A, B) >= 0 THEN BSub(A, B) ELSE BSub(B, A), e)

FAddAt(a, b, e) == FAddAligned(a.s, BShl(a.m, a.e - e), b.s, BShl(b.m, b.e - e), e)

FAdd(a, b) ==
  IF a.m = <<>> THEN b
  ELSE IF b.m = <<>> THEN a
  ELSE FAddAt(a, b, IF a.e < b.e THEN a.e ELSE b.e)

FSub(a, b) == FAdd(a, FNeg(b))

FMul(a, b) ==
  IF a.m = <<>> \/ b.m = <<>> THEN FZero
  ELSE FRoundInt(a.s * b.s, BMul(a.m, b.m), a.e + b.e)

FDiv(a, b) == FRoundDiv(a.s * b.s, a.m, b.m, a.e - b.e)

FCmpAt(a, b, e) == a.s * BCmp(BShl(a.m, a.e - e), BShl(b.m, b.e - e))

\* -1, 0, 1 as a < b, a = b, a > b
FCmp(a, b) ==
  IF a.m = <<>> /\ b.m = <<>> THEN 0
  ELSE IF a.m = <<>> THEN -b.s
  ELSE IF b.m = <<>> THEN a.s
  ELSE IF a.s # b.s THEN a.s
  ELSE FCmpAt(a, b, IF a.e < b.e THEN a.e ELSE b.e)

FMin(a, b) == IF FCmp(b, a) < 0 THEN b ELSE a

\* int(a): truncation toward zero
FTrunc(a) ==
  IF a.m = <<>> THEN 0
  ELSE a.s * BToNat(IF a.e >= 0 THEN BShl(a.m, a.e) ELSE BShr(a.m, -a.e))

\* the remainder f that fmod left, moved into [0, 1) when negative
FModFix(f) == IF f.m # <<>> /\ f.s < 0 THEN FAdd(f, FFromInt(1)) ELSE f

\* a % 1.0
FMod1(a) == FModFix(IF a.e >= 0 THEN FZero ELSE FCanon(a.s, BLowBits(a.m, -a.e), a.e))

\* ------------------------------------------------------------------------
\* InMemoryStorage: st = [data, expiry, last_cleanup, cleanup_interval];
\* data and expiry are dicts (functions on the keys present), t is time.time()
\* ------------------------------------------------------------------------
Restrict(f, S) == [k \in S |-> f[k]]

Put(f, k, v) == [x \in DOMAIN f \cup {k} |-> IF x = k THEN v ELSE f[x]]

CleanupIntervalDefault == 60

NewStorage(interval, t) ==
  [data |-> <<>>, expiry |-> <<>>, last_cleanup |-> t, cleanup_interval |-> interval]

\* a sweep that also takes the entries expiring at this very second
ExpiredKeysInclusive(st, t) == {k \in DOMAIN st.expiry : t >= st.expiry[k]}

ExpiredKeys(st, t) == {k \in DOMAIN st.expiry : t > st.expiry[k]}

Evict(st, keys) ==
  [st EXCEPT !.data = Restrict(st.data, DOMAIN st.data \ keys),
             !.expiry = Restrict(st.expiry, DOMAIN st.expiry \ keys)]

MaybeCleanup(st, t) ==
  IF t - st.last_cleanup < st.cleanup_interval THEN st
  ELSE [Evict(st, ExpiredKeys(st, t)) EXCEPT !.last_cleanup = t]

\* get that returns whatever is stored, expired or not
StorageLookupAnyAge(c, key, t) ==
  IF key \notin DOMAIN c.data THEN [value |-> None, st |-> c]
  ELSE [value |-> Some(c.data[key]), st |-> c]

\* the body of get after _maybe_cleanup: Some(value), or None when the key is
\* absent or expired, and the storage it leaves
StorageLookup(c, key, t) ==
  IF key \notin DOMAIN c.data THEN [value |-> None, st |-> c]
  ELSE IF key \in DOMAIN c.expiry /\ t > c.expiry[key]
    THEN [value |-> None, st |-> Evict(c, {key})]
  ELSE [value |-> Some(c.data[key]), st |-> c]

StorageGet(st, key, t) == StorageLookup(MaybeCleanup(st, t), key, t)

\* set that leaves an earlier expiry in place when no ttl is given
StorageSetKeepsExpiry(st, key, value, ttl, t) ==
  [st EXCEPT !.data = Put(st.data, key, value),
             !.expiry = IF ttl # Omitted THEN Put(st.expiry, key, t + ttl) ELSE st.expiry]

StorageSet(st, key, value, ttl, t) ==
  [st EXCEPT !.data = Put(st.data, key, value),
             !.expiry = IF ttl # Omitted THEN Put(st.expiry, key, t + ttl)
                        ELSE Restrict(st.expiry, DOMAIN st.expiry \ {key})]

\* clear empties both dicts
StorageClear(st) == [st EXCEPT !.data = <<>>, !.expiry = <<>>]

\* delete that drops the expiry first and the value on the next call
StorageDeleteInTurns(st, key) ==
  IF key \in DOMAIN st.expiry
    THEN [st EXCEPT !.expiry = Restrict(st.expiry, DOMAIN st.expiry \ {key})]
    ELSE Evict(st, {key})

StorageDelete(st, key) == Evict(st, {key})

\* ------------------------------------------------------------------------
\* Strategies.  An identifier is the sequence of the ":"-separated parts of
\* the identifier string, so that f"{identifier}:{window_id}" appends a part.
\* ------------------------------------------------------------------------
TokenBucket == "token_bucket"
SlidingWindow == "sliding_window"
FixedWindow == "fixed_window"
Strategies == {TokenBucket, SlidingWindow, FixedWindow}

\* current_time = current_time or time.time()
DecisionTimeWallClock(current_time, t) == t

DecisionTime(current_time, t) ==
  IF current_time = Omitted \/ current_time = 0 THEN t ELSE current_time

Max(a, b) == IF a > b THEN a ELSE b

RECURSIVE SeqMin(_)
SeqMin(q) ==
  IF Len(q) = 1 THEN q[1]
  ELSE LET r == SeqMin(Tail(q)) IN IF r < q[1] THEN r ELSE q[1]

\* what is_allowed returns, and the value it stores
Decision(allowed, value, remaining, limit, reset_at, retry_after) ==
  [allowed  |-> allowed,
   value    |-> value,
   metadata |-> [remaining |-> remaining, limit |-> limit,
                 reset_at |-> reset_at, retry_after |-> retry_after]]

\* is_allowed that stores with a ttl of 0 seconds
StoredBriefly(g, d, key, writes, window_seconds, t) ==
  [allowed |-> d.allowed, metadata |-> d.metadata,
   st |-> IF writes THEN StorageSet(g.st, key, d.value, 0, t) ELSE g.st]

\* the storage after is_allowed: g is what get returned, d the decision
Stored(g, d, key, writes, window_seconds, t) ==
  [allowed |-> d.allowed, metadata |-> d.metadata,
   st |-> IF writes THEN StorageSet(g.st, key, d.value, window_seconds * 2, t) ELSE g.st]

\* TokenBucketStrategy.is_allowed, lines 124-129: the metadata
TokenBucketMetadata(allowed, new_tokens, reset_at, limit, current_time) ==
  Decision(allowed, [tokens |-> new_tokens, last_refill |-> current_time],
           FTrunc(new_tokens), limit, FTrunc(reset_at),
           IF ~allowed THEN FTrunc(FSub(reset_at, FFromInt(current_time))) ELSE 0)

\* lines 116-122: when the next token will be available
TokenBucketResetAt(allowed, new_tokens, refill_rate, limit, current_time) ==
  TokenBucketMetadata(allowed, new_tokens,
    IF FCmp(new_tokens, FFromInt(limit)) < 0
      THEN FAdd(FFromInt(current_time),
                FDiv(FSub(FFromInt(1), FMod1(new_tokens)), refill_rate))
      ELSE FFromInt(current_time),
    limit, current_time)

\* lines 103-109: consume one token if there is one
TokenBucketConsume(allowed, refilled, refill_rate, limit, current_time) ==
  TokenBucketResetAt(allowed, IF allowed THEN FSub(refilled, FFromInt(1)) ELSE refilled,
                     refill_rate, limit, current_time)

TokenBucketAllowed(refilled, refill_rate, limit, current_time) ==
  TokenBucketConsume(FCmp(refilled, FFromInt(1)) >= 0, refilled, refill_rate, limit,
                     current_time)

\* lines 95-101: refill for the time elapsed, up to limit
TokenBucketRefill(bucket_data, refill_rate, limit, current_time) ==
  TokenBucketAllowed(
    FMin(FAdd(bucket_data.tokens,
              FMul(FFromInt(current_time - bucket_data.last_refill), refill_rate)),
         FFromInt(limit)),
    refill_rate, limit, current_time)

\* lines 89-129 of TokenBucketStrategy.is_allowed: from the bucket read to
\* the decision, the bucket to store and the metadata
TokenBucketDecide(stored, limit, window_seconds, current_time) ==
  TokenBucketRefill(IF stored = None
                      THEN [tokens |-> FFromInt(limit), last_refill |-> current_time]
                      ELSE stored[1],
                    FDiv(FFromInt(limit), FFromInt(window_seconds)), limit, current_time)

TokenBucketWith(g, identifier, limit, window_seconds, current_time, t) ==
  Stored(g, TokenBucketDecide(g.value, limit, window_seconds, current_time),
         identifier, TRUE, window_seconds, t)

TokenBucketIsAllowed(st, identifier, limit, window_seconds, current_time, t) ==
  TokenBucketWith(StorageGet(st, identifier, t), identifier, limit, window_seconds,
                  current_time, t)

\* window_start = current_time - window_seconds
WindowStartLate(current_time, window_seconds) == current_time - window_seconds + 1

WindowStart(current_time, window_seconds) == current_time - window_seconds

\* allowed = len(request_log) < limit; allowed = window_data["count"] < limit
UnderLimitInclusive(count, limit) == count <= limit

UnderLimit(count, limit) == count < limit

\* SlidingWindowStrategy.is_allowed, lines 186-203: the metadata
SlidingWindowMetadata(allowed, request_log, reset_at, limit, current_time) ==
  Decision(allowed, request_log, Max(0, limit - Len(request_log)), limit, reset_at,
           IF ~allowed THEN Max(0, reset_at - current_time) ELSE 0)

\* lines 181-194: log the request if allowed; when the oldest one expires
SlidingWindowLog(allowed, request_log, limit, window_seconds, current_time) ==
  SlidingWindowMetadata(allowed, request_log,
    IF request_log # <<>> THEN SeqMin(request_log) + window_seconds
    ELSE current_time + window_seconds,
    limit, current_time)

SlidingWindowAllowed(allowed, pruned, limit, window_seconds, current_time) ==
  SlidingWindowLog(allowed, IF allowed THEN Append(pruned, current_time) ELSE pruned,
                   limit, window_seconds, current_time)

\* lines 176-179: drop the requests outside the window, compare with limit
SlidingWindowPruned(pruned, limit, window_seconds, current_time) ==
  SlidingWindowAllowed(UnderLimit(Len(pruned), limit), pruned, limit, window_seconds,
                       current_time)

SlidingWindowPrune(request_log, window_start, limit, window_seconds, current_time) ==
  SlidingWindowPruned(SelectSeq(request_log, LAMBDA ts : ts > window_start),
                      limit, window_seconds, current_time)

\* lines 170-203 of SlidingWindowStrategy.is_allowed
SlidingWindowDecide(stored, limit, window_seconds, current_time) ==
  SlidingWindowPrune(IF stored = None THEN <<>> ELSE stored[1],
                     WindowStart(current_time, window_seconds),
                     limit, window_seconds, current_time)

SlidingWindowWith(g, d, identifier, window_seconds, t) ==
  Stored(g, d, identifier, d.allowed, window_seconds, t)

SlidingWindowGot(g, identifier, limit, window_seconds, current_time, t) ==
  SlidingWindowWith(g, SlidingWindowDecide(g.value, limit, window_seconds, current_time),
                    identifier, window_seconds, t)

SlidingWindowIsAllowed(st, identifier, limit, window_seconds, current_time, t) ==
  SlidingWindowGot(StorageGet(st, identifier, t), identifier, limit, window_seconds,
                   current_time, t)

WindowId(current_time, window_seconds) == current_time \div window_seconds

\* key = f"{identifier}:{window_id}"
FixedWindowKeyShared(identifier, window_id) == <<window_id>>

FixedWindowKey(identifier, window_id) == Append(identifier, window_id)

\* FixedWindowStrategy.is_allowed, lines 264-276: the metadata
FixedWindowMetadata(allowed, window_data, reset_at, limit, current_time) ==
  Decision(allowed, window_data, Max(0, limit - window_data.count), limit, reset_at,
           IF ~allowed THEN reset_at - current_time ELSE 0)

\* lines 259-261: count the request if allowed
FixedWindowCount(allowed, window_data, window_id, limit, window_seconds, current_time) ==
  FixedWindowMetadata(allowed,
                      IF allowed THEN [window_data EXCEPT !.count = @ + 1] ELSE window_data,
                      (window_id + 1) * window_seconds, limit, current_time)

\* lines 252-257: a counter of another window starts again at 0
FixedWindowCurrent(window_data, window_id, limit, window_seconds, current_time) ==
  FixedWindowCount(UnderLimit(window_data.count, limit), window_data, window_id, limit,
                   window_seconds, current_time)

FixedWindowRead(read, window_id, limit, window_seconds, current_time) ==
  FixedWindowCurrent(IF read.window_id # window_id
                       THEN [count |-> 0, window_id |-> window_id] ELSE read,
                     window_id, limit, window_seconds, current_time)

\* lines 250-276 of FixedWindowStrategy.is_allowed
FixedWindowDecide(stored, window_id, limit, window_seconds, current_time) ==
  FixedWindowRead(IF stored = None THEN [count |-> 0, window_id |-> window_id]
                  ELSE stored[1],
                  window_id, limit, window_seconds, current_time)

FixedWindowWith(g, d, key, window_seconds, t) ==
  Stored(g, d, key, d.allowed, window_seconds, t)

FixedWindowGot(g, key, window_id, limit, window_seconds, current_time, t) ==
  FixedWindowWith(g, FixedWindowDecide(g.value, window_id, limit, window_seconds,
                                       current_time),
                  key, window_seconds, t)

FixedWindowAt(st, key, window_id, limit, window_seconds, current_time, t) ==
  FixedWindowGot(StorageGet(st, key, t), key, window_id, limit, window_seconds,
                 current_time, t)

FixedWindowIn(st, identifier, window_id, limit, window_seconds, current_time, t) ==
  FixedWindowAt(st, FixedWindowKey(identifier, window_id), window_id, limit,
                window_seconds, current_time, t)

FixedWindowIsAllowed(st, identifier, limit, window_seconds, current_time, t) ==
  FixedWindowIn(st, identifier, WindowId(current_time, window_seconds), limit,
                window_seconds, current_time, t)

\* is_allowed of the bound strategy at decision time `at`, wall clock t
IsAllowedAt(strat, st, identifier, limit, window_seconds, at, t) ==
  IF strat = TokenBucket
    THEN TokenBucketIsAllowed(st, identifier, limit, window_seconds, at, t)
  ELSE IF strat = SlidingWindow
    THEN SlidingWindowIsAllowed(st, identifier, limit, window_seconds, at, t)
  ELSE FixedWindowIsAllowed(st, identifier, limit, window_seconds, at, t)

\* strategy.is_allowed(identifier, limit, window_seconds, current_time) at
\* wall-clock time t; current_time is Omitted when the argument is not given
IsAllowed(strat, st, identifier, limit, window_seconds, current_time, t) ==
  IsAllowedAt(strat, st, identifier, limit, window_seconds,
              DecisionTime(current_time, t), t)

\* strategy.reset(identifier): every strategy deletes the key `identifier`
StrategyReset(strat, st, identifier) == StorageDelete(st, identifier)

\* check that always takes the defaults
RateLimiterCheckDefaults(strat, st, dl, dw, identifier, lim, win, t) ==
  IsAllowed(strat, st, identifier, dl, dw, Omitted, t)

\* RateLimiter.check(identifier, limit, window): omitted arguments take the
\* defaults; the strategy is called without current_time
RateLimiterCheck(strat, st, dl, dw, identifier, lim, win, t) ==
  IsAllowed(strat, st, identifier,
            IF lim = Omitted THEN dl ELSE lim,
            IF win = Omitted THEN dw ELSE win, Omitted, t)

\* ------------------------------------------------------------------------
\* Bounds of the model
\* ------------------------------------------------------------------------
Epoch == 1000            \* time.time() when the limiter is constructed
MaxLimit == 2
MaxWindow == 2
MaxOps == 3              \* calls recorded in one behaviour
MaxClock == 2            \* one-second ticks of the wall clock
MaxTimedOps == 5         \* calls with an explicit current_time
MaxRefillWindow == 50    \* windows of the refill scenario
NumThreads == 3          \* concurrent check calls
MaxPollWindow == 6       \* windows of the polling scenario
TestLimit == 3           \* limit=3 of the strategy tests
TestWindow == 10         \* window_seconds=10 of the strategy tests
TestCleanupInterval == 1 \* cleanup_interval=1 of the storage tests
Times == {0, 1, 2, 3, 9, 10, 11}
Ids == {<<"a">>, <<"b">>}
Id == <<"a">>

\* ------------------------------------------------------------------------
\* State
\* ------------------------------------------------------------------------
VARIABLES
  strategy,        \* the strategy bound to the limiter
  default_limit,   \* RateLimiter.default_limit
  default_window,  \* RateLimiter.default_window
  now,             \* time.time()
  storage,         \* the InMemoryStorage shared by all calls
  hist,            \* the calls made so far, with what they returned
  solo,            \* per identifier: a storage that saw only its own calls
  threads,         \* concurrent check calls: where each is, and its locals
  heap             \* the dict objects of concurrent fixed-window calls

vars == <<strategy, default_limit, default_window, now, storage, hist, solo, threads, heap>>

NoThreads == <<>>

NoMetadata == [remaining |-> 0, limit |-> 0, reset_at |-> 0, retry_after |-> 0]

Outcome(r) == [allowed |-> r.allowed, metadata |-> r.metadata]

\* a limiter just constructed, with the given defaults
Fresh(strategies, limits, windows) ==
  /\ strategy \in strategies
  /\ default_limit \in limits
  /\ default_window \in windows
  /\ now = Epoch
  /\ storage = NewStorage(CleanupIntervalDefault, Epoch)
  /\ hist = <<>>
  /\ solo = [i \in Ids |-> NewStorage(CleanupIntervalDefault, Epoch)]
  /\ heap = <<>>

\* ------------------------------------------------------------------------
\* Sequential use through the facade, on the wall clock
\* ------------------------------------------------------------------------
Init ==
  /\ Fresh(Strategies, 1..MaxLimit, 1..MaxWindow)
  /\ threads = NoThreads

\* a call of strategy.is_allowed that returned r, recorded with the outcome a
\* that the same call has on the storage that saw only this identifier
Returned(identifier, limit, window_seconds, current_time, r, a) ==
  /\ storage' = r.st
  /\ solo' = [solo EXCEPT ![identifier] = a.st]
  /\ hist' = Append(hist, [op |-> "check", id |-> identifier, limit |-> limit,
                           window |-> window_seconds, ct |-> current_time,
                           now |-> now, allowed |-> r.allowed,
                           metadata |-> r.metadata, alone |-> Outcome(a)])
  /\ UNCHANGED <<strategy, default_limit, default_window, now, threads, heap>>

Call(identifier, limit, window_seconds, current_time) ==
  Returned(identifier, limit, window_seconds, current_time,
           IsAllowed(strategy, storage, identifier, limit, window_seconds, current_time, now),
           IsAllowed(strategy, solo[identifier], identifier, limit, window_seconds,
                     current_time, now))

\* RateLimiter.check(identifier)
Check(identifier) ==
  /\ Len(hist) < MaxOps
  /\ Returned(identifier, default_limit, default_window, Omitted,
              RateLimiterCheck(strategy, storage, default_limit, default_window,
                               identifier, Omitted, Omitted, now),
              RateLimiterCheck(strategy, solo[identifier], default_limit, default_window,
                               identifier, Omitted, Omitted, now))

\* what the history keeps of a reset
ResetRecord(identifier) ==
  [op |-> "reset", id |-> identifier, limit |-> default_limit,
   window |-> default_window, ct |-> Omitted, now |-> now,
   allowed |-> FALSE, metadata |-> NoMetadata,
   alone |-> [allowed |-> FALSE, metadata |-> NoMetadata]]

\* RateLimiter.reset(identifier)
Reset(identifier) ==
  /\ Len(hist) < MaxOps
  /\ storage' = StrategyReset(strategy, storage, identifier)
  /\ solo' = [solo EXCEPT ![identifier] = StrategyReset(strategy, @, identifier)]
  /\ hist' = Append(hist, ResetRecord(identifier))
  /\ UNCHANGED <<strategy, default_limit, default_window, now, threads, heap>>

\* the wall clock advances by one second
Tick ==
  /\ (now - Epoch) % CleanupIntervalDefault < MaxClock
  /\ now' = now + 1
  /\ UNCHANGED <<strategy, default_limit, default_window, storage, hist, solo, threads, heap>>

\* a quiet period as long as the cleanup interval
Idle ==
  /\ now - Epoch < CleanupIntervalDefault
  /\ now' = now + CleanupIntervalDefault
  /\ UNCHANGED <<strategy, default_limit, default_window, storage, hist, solo, threads, heap>>

Next ==
  \/ Check(Id)
  \/ Reset(Id)
  \/ Tick
  \/ Idle

Spec == Init /\ [][Next]_vars

\* ------------------------------------------------------------------------
\* Two identifiers on one limiter
\* ------------------------------------------------------------------------
NextPair ==
  \/ \E i \in Ids : Check(i)
  \/ Tick
  \/ Idle

SpecPair == Init /\ [][NextPair]_vars

\* ------------------------------------------------------------------------
\* Calls of strategy.is_allowed with an explicit current_time, as the tests
\* of the strategies make them
\* ------------------------------------------------------------------------
InitTimed ==
  /\ Fresh(Strategies, {TestLimit}, {TestWindow})
  /\ threads = NoThreads

\* is_allowed(identifier, limit, window_seconds, current_time=ct), at a time
\* not before that of the previous call
CheckAt(identifier, ct) ==
  /\ Len(hist) < MaxTimedOps
  /\ hist # <<>> => hist[Len(hist)].ct <= ct
  /\ Call(identifier, default_limit, default_window, ct)

NextTimed == \E ct \in Times : CheckAt(Id, ct)

SpecTimed == InitTimed /\ [][NextTimed]_vars

\* ------------------------------------------------------------------------
\* Token bucket: checks, a wait of exactly window_seconds, checks
\* ------------------------------------------------------------------------
InitRefill ==
  /\ Fresh({TokenBucket}, 1..MaxLimit, 1..MaxRefillWindow)
  /\ threads = NoThreads

\* the wall clock advances by window_seconds
Wait ==
  /\ now = Epoch
  /\ now' = now + default_window
  /\ UNCHANGED <<strategy, default_limit, default_window, storage, hist, solo, threads, heap>>

NextRefill ==
  \/ Check(Id)
  \/ Wait

SpecRefill == InitRefill /\ [][NextRefill]_vars

\* ------------------------------------------------------------------------
\* Concurrent check calls on one identifier. InMemoryStorage takes its lock
\* for one get, set or delete at a time (storage.py, lines 98, 110, 120);
\* is_allowed holds no lock between them.
\* ------------------------------------------------------------------------
NewThread ==
  [pc |-> "start", d |-> None, ref |-> 0, tmp |-> 0, allowed |-> FALSE, fresh |-> FALSE]

InitConc ==
  /\ Fresh(Strategies, 1..MaxLimit, 1..MaxWindow)
  /\ threads = [t \in 1..NumThreads |-> NewThread]

\* the key the calls read and write
ThreadKey ==
  IF strategy = FixedWindow
    THEN FixedWindowKey(Id, WindowId(now, default_window))
    ELSE Id

\* reset(Id) has returned
WasReset == \E k \in 1..Len(hist) : hist[k].op = "reset"

\* token bucket and sliding window: the thread holds the decision computed
\* from the value it read, and writes it next unless the log is full
ThreadDecided(t, d) ==
  /\ threads' = [threads EXCEPT ![t] =
       [@ EXCEPT !.pc = IF strategy = TokenBucket \/ d.allowed THEN "set" ELSE "ret",
                 !.d = Some(d), !.allowed = d.allowed, !.fresh = WasReset]]
  /\ heap' = heap

\* fixed window, lines 250-254: window_data is the dict that get returned,
\* or a new dict when there is none for this window
ThreadHolds(t, new, ref) ==
  /\ threads' = [threads EXCEPT ![t] = [@ EXCEPT !.pc = "got", !.ref = ref,
                                                 !.fresh = WasReset]]
  /\ heap' = IF new THEN Append(heap, [count |-> 0,
                                       window_id |-> WindowId(now, default_window)])
             ELSE heap

ThreadHoldsNew(t, new, stored) ==
  ThreadHolds(t, new, IF new THEN Len(heap) + 1 ELSE stored[1])

ThreadGot(t, g) ==
  /\ storage' = g.st
  /\ IF strategy = TokenBucket
       THEN ThreadDecided(t, TokenBucketDecide(g.value, default_limit, default_window, now))
     ELSE IF strategy = SlidingWindow
       THEN ThreadDecided(t, SlidingWindowDecide(g.value, default_limit, default_window, now))
     ELSE ThreadHoldsNew(t, \/ g.value = None
                            \/ heap[g.value[1]].window_id # WindowId(now, default_window),
                         g.value)

\* self.storage.get(key)
ThreadGet(t) ==
  /\ threads[t].pc = "start"
  /\ ThreadGot(t, StorageGet(storage, ThreadKey, now))
  /\ UNCHANGED <<strategy, default_limit, default_window, now, hist, solo>>

\* fixed window, line 257: allowed = window_data["count"] < limit
ThreadTest(t) ==
  /\ threads[t].pc = "got"
  /\ threads' = [threads EXCEPT ![t] =
       [@ EXCEPT !.allowed = UnderLimit(heap[threads[t].ref].count, default_limit),
                 !.pc = IF UnderLimit(heap[threads[t].ref].count, default_limit)
                        THEN "tested" ELSE "ret"]]
  /\ UNCHANGED <<strategy, default_limit, default_window, now, storage, hist, solo, heap>>

\* fixed window, line 261: window_data["count"] += 1 reads the count ...
ThreadIncRead(t) ==
  /\ threads[t].pc = "tested"
  /\ threads' = [threads EXCEPT ![t] = [@ EXCEPT !.tmp = heap[threads[t].ref].count,
                                                 !.pc = "incr"]]
  /\ UNCHANGED <<strategy, default_limit, default_window, now, storage, hist, solo, heap>>

\* ... and stores the count plus one
ThreadIncWrite(t) ==
  /\ threads[t].pc = "incr"
  /\ heap' = [heap EXCEPT ![threads[t].ref].count = threads[t].tmp + 1]
  /\ threads' = [threads EXCEPT ![t].pc = "set"]
  /\ UNCHANGED <<strategy, default_limit, default_window, now, storage, hist, solo>>

\* self.storage.set(key, value, ttl=window_seconds * 2)
ThreadSet(t) ==
  /\ threads[t].pc = "set"
  /\ storage' = StorageSet(storage, ThreadKey,
                           IF strategy = FixedWindow THEN threads[t].ref
                           ELSE threads[t].d[1].value,
                           default_window * 2, now)
  /\ threads' = [threads EXCEPT ![t].pc = "ret"]
  /\ UNCHANGED <<strategy, default_limit, default_window, now, hist, solo, heap>>

\* the metadata the call returns
ThreadMetadata(t) ==
  IF strategy = FixedWindow
    THEN FixedWindowMetadata(threads[t].allowed, heap[threads[t].ref],
                             (WindowId(now, default_window) + 1) * default_window,
                             default_limit, now).metadata
    ELSE threads[t].d[1].metadata

ThreadReturns(t, metadata) ==
  /\ hist' = Append(hist, [op |-> "check", id |-> Id, limit |-> default_limit,
                           window |-> default_window, ct |-> Omitted, now |-> now,
                           allowed |-> threads[t].allowed, metadata |-> metadata,
                           alone |-> [allowed |-> threads[t].allowed,
                                      metadata |-> metadata]])
  /\ threads' = [threads EXCEPT ![t].pc = "done"]

\* return allowed, metadata
ThreadReturn(t) ==
  /\ threads[t].pc = "ret"
  /\ ThreadReturns(t, ThreadMetadata(t))
  /\ UNCHANGED <<strategy, default_limit, default_window, now, storage, solo, heap>>

\* RateLimiter.reset(Id), once, at any point between the steps of the calls
ConcReset ==
  /\ ~WasReset
  /\ storage' = StrategyReset(strategy, storage, Id)
  /\ hist' = Append(hist, ResetRecord(Id))
  /\ UNCHANGED <<strategy, default_limit, default_window, now, solo, threads, heap>>

NextConc ==
  \/ \E t \in 1..NumThreads : ThreadGet(t)
  \/ \E t \in 1..NumThreads : ThreadTest(t)
  \/ \E t \in 1..NumThreads : ThreadIncRead(t)
  \/ \E t \in 1..NumThreads : ThreadIncWrite(t)
  \/ \E t \in 1..NumThreads : ThreadSet(t)
  \/ \E t \in 1..NumThreads : ThreadReturn(t)
  \/ ConcReset

SpecConc == InitConc /\ [][NextConc]_vars

\* ------------------------------------------------------------------------
\* Calls of strategy.is_allowed with an explicit current_time while the wall
\* clock advances
\* ------------------------------------------------------------------------
ClockTimes == 0..MaxClock

InitTimedClock ==
  /\ Fresh(Strategies, 1..MaxLimit, 1..MaxWindow)
  /\ threads = NoThreads

NextTimedClock ==
  \/ \E ct \in ClockTimes : CheckAt(Id, ct)
  \/ Tick

SpecTimedClock == InitTimedClock /\ [][NextTimedClock]_vars

\* ------------------------------------------------------------------------
\* InMemoryStorage used directly: get, set, delete and clear on two keys
\* while the clock advances. hist holds the last call only.
\* ------------------------------------------------------------------------
Values == {1, 2}
Ttls == {Omitted, 1, 2}
CleanupIntervals == {TestCleanupInterval, CleanupIntervalDefault}

InitStorage ==
  /\ strategy = TokenBucket
  /\ default_limit = 1
  /\ default_window = 1
  /\ now = Epoch
  /\ storage \in {NewStorage(i, Epoch) : i \in CleanupIntervals}
  /\ hist = <<>>
  /\ solo = [i \in Ids |-> NewStorage(CleanupIntervalDefault, Epoch)]
  /\ threads = NoThreads
  /\ heap = <<>>

\* what hist keeps of a storage call: the call, what it returned, and what
\* the storage held for the key when the call was made
StorageCall(op, key, value, ttl, returned) ==
  [op |-> op, key |-> key, value |-> value, ttl |-> ttl, now |-> now,
   returned |-> returned,
   held |-> IF key \in DOMAIN storage.data THEN Some(storage.data[key]) ELSE None,
   expiry |-> IF key \in DOMAIN storage.expiry THEN Some(storage.expiry[key]) ELSE None,
   sweep |-> now - storage.last_cleanup >= storage.cleanup_interval,
   before |-> storage]

KeyGot(key, g) ==
  /\ storage' = g.st
  /\ hist' = <<StorageCall("get", key, 0, Omitted, g.value)>>

\* storage.get(key)
KeyGet(key) ==
  /\ KeyGot(key, StorageGet(storage, key, now))
  /\ UNCHANGED <<strategy, default_limit, default_window, now, solo, threads, heap>>

\* storage.set(key, value, ttl)
KeySet(key, value, ttl) ==
  /\ storage' = StorageSet(storage, key, value, ttl, now)
  /\ hist' = <<StorageCall("set", key, value, ttl, None)>>
  /\ UNCHANGED <<strategy, default_limit, default_window, now, solo, threads, heap>>

\* storage.delete(key)
KeyDelete(key) ==
  /\ storage' = StorageDelete(storage, key)
  /\ hist' = <<StorageCall("delete", key, 0, Omitted, None)>>
  /\ UNCHANGED <<strategy, default_limit, default_window, now, solo, threads, heap>>

\* storage.clear()
Clear ==
  /\ storage' = StorageClear(storage)
  /\ hist' = <<StorageCall("clear", Id, 0, Omitted, None)>>
  /\ UNCHANGED <<strategy, default_limit, default_window, now, solo, threads, heap>>

NextStorage ==
  \/ \E key \in Ids : KeyGet(key)
  \/ \E key \in Ids, value \in Values, ttl \in Ttls : KeySet(key, value, ttl)
  \/ \E key \in Ids : KeyDelete(key)
  \/ Clear
  \/ Tick

SpecStorage == InitStorage /\ [][NextStorage]_vars

\* ------------------------------------------------------------------------
\* RateLimitMiddleware.dispatch, one request at a time. hist holds the last
\* request only.
\* ------------------------------------------------------------------------
\* skip_paths and endpoint_limits as create_application configures them
SkipPaths == {"/", "/health", "/v1/docs", "/v1/openapi.json", "/v1/redoc"}

EndpointLimits ==
  [p \in {"/v1/auth/login", "/v1/auth/register", "/v1/auth/refresh"} |->
     IF p = "/v1/auth/login" THEN [limit |-> 5, window |-> 300]
     ELSE IF p = "/v1/auth/register" THEN [limit |-> 3, window |-> 3600]
     ELSE [limit |-> 10, window |-> 60]]

\* get_endpoint_limit(config, endpoint_path)
GetEndpointLimit(path) ==
  IF path \in DOMAIN EndpointLimits
    THEN [limit |-> EndpointLimits[path].limit, window |-> EndpointLimits[path].window]
    ELSE [limit |-> default_limit, window |-> default_window]

\* the paths of the requests, and an identifier resolver that raised
RequestPaths == {"/health", "/v1/auth/login", "/v1/user/profile"}
Unresolved == <<>>

AddHeaders == TRUE

\* the response of the downstream handler
Downstream == [status |-> 200, headers |-> <<>>, body |-> <<>>]

\* _add_rate_limit_headers(response, metadata)
AddRateLimitHeaders(response, metadata) ==
  [response EXCEPT !.headers = ("X-RateLimit-Limit" :> metadata.limit)
                            @@ ("X-RateLimit-Remaining" :> metadata.remaining)
                            @@ ("X-RateLimit-Reset" :> metadata.reset_at) @@ @]

\* lines 152-154: Retry-After is set when retry_after > 0
AddRetryAfter(response, retry_after) ==
  IF retry_after > 0
    THEN [response EXCEPT !.headers = ("Retry-After" :> retry_after) @@ @]
    ELSE response

\* _rate_limit_response(metadata)
RateLimitResponse(metadata) ==
  AddRetryAfter(
    AddRateLimitHeaders([status |-> 429, headers |-> <<>>,
                         body |-> <<"rate_limit_exceeded", metadata.retry_after>>],
                        metadata),
    metadata.retry_after)

\* dispatch ends: the events in their order, the response returned or the
\* exception that left dispatch, the storage, and what check was called with
Ended(events, response, raised, st, checked, allowed) ==
  [events |-> events, response |-> response, raised |-> raised, st |-> st,
   checked |-> checked, allowed |-> allowed]

\* return await call_next(request)
Forward(events, st) ==
  Ended(Append(events, "handler"), Some(Downstream), FALSE, st, None, None)

\* an exception leaves dispatch
Propagate(events, st) == Ended(events, None, TRUE, st, None, None)

\* a path that is rate limited although it is in skip_paths
ExemptNever(path) == FALSE

\* line 77: request.url.path in self.skip_paths
Exempt(path) == path \in SkipPaths

\* a resolver failure that is not caught
ResolutionFailurePropagates(events, st) == Propagate(events, st)

\* lines 83-86: the failure is printed and the request forwarded
ResolutionFailed(events, st) == Forward(events, st)

\* a denied request that is processed all the same
DeniedNever(allowed) == FALSE

\* line 91: if not allowed
Denied(allowed) == ~allowed

\* lines 91-102, after check returned r
AfterCheck(events, r, checked) ==
  IF Denied(r.allowed)
    THEN Ended(events, Some(RateLimitResponse(r.metadata)), FALSE, r.st,
               Some(checked), Some(r.allowed))
    ELSE Ended(Append(events, "handler"),
               Some(IF AddHeaders THEN AddRateLimitHeaders(Downstream, r.metadata)
                    ELSE Downstream),
               FALSE, r.st, Some(checked), Some(r.allowed))

\* line 89: self.limiter.check(identifier); a storage that raises makes check
\* raise, and nothing in dispatch catches it
CheckLimit(events, identifier, storage_up) ==
  IF storage_up
    THEN AfterCheck(events,
                    RateLimiterCheck(strategy, storage, default_limit, default_window,
                                     identifier, Omitted, Omitted, now),
                    [identifier |-> identifier, limit |-> default_limit,
                     window |-> default_window])
    ELSE Propagate(events, storage)

\* dispatch(request, call_next)
DispatchOutcome(path, who, storage_up) ==
  IF Exempt(path) THEN Forward(<<>>, storage)
  ELSE IF who = Unresolved THEN ResolutionFailed(<<"resolve">>, storage)
  ELSE CheckLimit(<<"resolve", "check">>, who, storage_up)

Dispatched(path, who, storage_up, o) ==
  /\ storage' = o.st
  /\ hist' = <<[op |-> "dispatch", path |-> path, who |-> who,
                storage_up |-> storage_up, now |-> now, events |-> o.events,
                response |-> o.response, raised |-> o.raised,
                checked |-> o.checked, allowed |-> o.allowed, before |-> storage]>>
  /\ UNCHANGED <<strategy, default_limit, default_window, now, solo, threads, heap>>

Dispatch(path, who, storage_up) ==
  Dispatched(path, who, storage_up, DispatchOutcome(path, who, storage_up))

InitMiddleware ==
  /\ Fresh(Strategies, 1..MaxLimit, 1..MaxWindow)
  /\ threads = NoThreads

NextMiddleware ==
  \/ \E path \in RequestPaths, who \in {Id, Unresolved}, storage_up \in BOOLEAN :
       Dispatch(path, who, storage_up)
  \/ Tick

SpecMiddleware == InitMiddleware /\ [][NextMiddleware]_vars

\* ------------------------------------------------------------------------
\* Limits and windows that are not positive. Nothing validates them:
\* RateLimiter.__init__ stores the defaults as given, check passes the
\* effective values to the strategy. hist holds the last call only.
\* ------------------------------------------------------------------------
\* limit / window_seconds (token bucket, line 97) and
\* current_time // window_seconds (fixed window, line 246) raise
\* ZeroDivisionError when window_seconds is 0; the sliding window divides
\* nothing
DividesByZero(strat, window_seconds) ==
  window_seconds = 0 /\ strat \in {TokenBucket, FixedWindow}

\* is_allowed up to the division: the token bucket has read its bucket
\* (line 90), the fixed window has not touched the storage
RaisedZeroDivision(strat, st, identifier, t) ==
  [raised |-> TRUE, allowed |-> FALSE, metadata |-> NoMetadata,
   st |-> IF strat = TokenBucket THEN StorageGet(st, identifier, t).st ELSE st]

ReturnedDecision(r) ==
  [raised |-> FALSE, allowed |-> r.allowed, metadata |-> r.metadata, st |-> r.st]

\* RateLimiter.check(identifier, limit, window) for any integers
RateLimiterCheckAny(strat, st, dl, dw, identifier, lim, win, t) ==
  IF DividesByZero(strat, IF win = Omitted THEN dw ELSE win)
    THEN RaisedZeroDivision(strat, st, identifier, t)
    ELSE ReturnedDecision(RateLimiterCheck(strat, st, dl, dw, identifier, lim, win, t))

\* the values a caller passes for limit and window: omitted, zero, positive
ConfiguredLimits == 0..MaxLimit
ConfiguredWindows == 0..MaxWindow

InitConfigured ==
  /\ Fresh(Strategies, ConfiguredLimits, ConfiguredWindows)
  /\ threads = NoThreads

ConfiguredReturned(identifier, lim, win, r) ==
  /\ storage' = r.st
  /\ hist' = <<[op |-> "check", id |-> identifier, lim |-> lim, win |-> win,
                limit |-> IF lim = Omitted THEN default_limit ELSE lim,
                window |-> IF win = Omitted THEN default_window ELSE win,
                now |-> now, raised |-> r.raised, allowed |-> r.allowed,
                metadata |-> r.metadata, before |-> storage]>>
  /\ UNCHANGED <<strategy, default_limit, default_window, now, solo, threads, heap>>

\* RateLimiter.check(identifier, lim, win)
ConfiguredCheck(identifier, lim, win) ==
  ConfiguredReturned(identifier, lim, win,
    RateLimiterCheckAny(strategy, storage, default_limit, default_window,
                        identifier, lim, win, now))

NextConfigured ==
  \/ \E lim \in {Omitted} \cup ConfiguredLimits, win \in {Omitted} \cup ConfiguredWindows :
       ConfiguredCheck(Id, lim, win)
  \/ Tick

SpecConfigured == InitConfigured /\ [][NextConfigured]_vars

\* ------------------------------------------------------------------------
\* check with per-call limit and window, on a limiter with positive defaults
\* ------------------------------------------------------------------------
OverrideLimits == {Omitted} \cup (1..MaxLimit)
OverrideWindows == {Omitted, MaxWindow}

\* RateLimiter.check(identifier, limit=lim, window=win)
CheckWith(identifier, lim, win) == ConfiguredCheck(identifier, lim, win)

NextOverride ==
  \/ \E lim \in OverrideLimits, win \in OverrideWindows : CheckWith(Id, lim, win)
  \/ Wait

SpecOverride == Init /\ [][NextOverride]_vars

\* ------------------------------------------------------------------------
\* get_limits between checks
\* ------------------------------------------------------------------------
\* RateLimiter.get_limits(identifier, limit, window): the metadata of
\* strategy.is_allowed, called as check calls it
RateLimiterGetLimits(strat, st, dl, dw, identifier, lim, win, t) ==
  RateLimiterCheck(strat, st, dl, dw, identifier, lim, win, t)

GotLimits(identifier, r) ==
  /\ storage' = r.st
  /\ hist' = <<[op |-> "get_limits", id |-> identifier, now |-> now,
                metadata |-> r.metadata, before |-> storage]>>
  /\ UNCHANGED <<strategy, default_limit, default_window, now, solo, threads, heap>>

\* RateLimiter.get_limits(identifier)
GetLimits(identifier) ==
  GotLimits(identifier,
            RateLimiterGetLimits(strategy, storage, default_limit, default_window,
                                 identifier, Omitted, Omitted, now))

NextGetLimits ==
  \/ GetLimits(Id)
  \/ CheckWith(Id, Omitted, Omitted)
  \/ Tick

SpecGetLimits == Init /\ [][NextGetLimits]_vars

\* ------------------------------------------------------------------------
\* A check whose storage.set raises. InMemoryStorage.get returns the stored
\* object itself (line 105), so what is_allowed changes in that object before
\* the set is changed in the store. hist holds the last call only.
\* ------------------------------------------------------------------------
\* is_allowed left by the exception that set raised, the storage being st
SetRaised(st) ==
  [raised |-> TRUE, allowed |-> FALSE, metadata |-> NoMetadata, st |-> st]

\* token bucket: new_bucket_data is a new dict (line 112); set is always called
TokenBucketSetFails(g) == SetRaised(g.st)

\* sliding window: the list comprehension of line 176 makes a new list, and set
\* is called only for an allowed request
SlidingWindowSetFails(g, d) ==
  IF d.allowed THEN SetRaised(g.st)
  ELSE ReturnedDecision([allowed |-> d.allowed, metadata |-> d.metadata, st |-> g.st])

\* fixed window: window_data is the stored dict when get returned one (line
\* 250), and window_data["count"] += 1 (line 261) has changed it when set is
\* called (line 262); without a stored dict window_data is a new dict
FixedWindowSetFails(g, d, key) ==
  IF d.allowed
    THEN SetRaised(IF g.value # None /\ g.value[1].window_id = d.value.window_id
                     THEN [g.st EXCEPT !.data = Put(g.st.data, key, d.value)]
                     ELSE g.st)
    ELSE ReturnedDecision([allowed |-> d.allowed, metadata |-> d.metadata, st |-> g.st])

FixedWindowSetFailsAt(g, key, window_id, limit, window_seconds, t) ==
  FixedWindowSetFails(g, FixedWindowDecide(g.value, window_id, limit, window_seconds, t),
                      key)

FixedWindowSetFailsIn(st, key, window_id, limit, window_seconds, t) ==
  FixedWindowSetFailsAt(StorageGet(st, key, t), key, window_id, limit, window_seconds, t)

SlidingWindowSetFailsAt(g, limit, window_seconds, t) ==
  SlidingWindowSetFails(g, SlidingWindowDecide(g.value, limit, window_seconds, t))

\* strategy.is_allowed(identifier, limit, window_seconds) at time t on a
\* storage whose set raises
IsAllowedSetFails(strat, st, identifier, limit, window_seconds, t) ==
  IF strat = TokenBucket THEN TokenBucketSetFails(StorageGet(st, identifier, t))
  ELSE IF strat = SlidingWindow
    THEN SlidingWindowSetFailsAt(StorageGet(st, identifier, t), limit, window_seconds, t)
  ELSE FixedWindowSetFailsIn(st, FixedWindowKey(identifier, WindowId(t, window_seconds)),
                             WindowId(t, window_seconds), limit, window_seconds, t)

\* RateLimiter.check(identifier) while the storage refuses writes
CheckSetFails(identifier) ==
  ConfiguredReturned(identifier, Omitted, Omitted,
    IsAllowedSetFails(strategy, storage, identifier, default_limit, default_window, now))

NextFailedWrite ==
  \/ CheckWith(Id, Omitted, Omitted)
  \/ CheckSetFails(Id)
  \/ Tick

SpecFailedWrite == Init /\ [][NextFailedWrite]_vars

\* ------------------------------------------------------------------------
\* TTL expiry: the limiter on the wall clock, next to the same limiter on a
\* store whose entries never expire (solo), long enough for entries to pass
\* their ttl of 2 * window_seconds
\* ------------------------------------------------------------------------
\* seconds the clock runs: past the longest ttl
MaxAge == 2 * MaxWindow + 2

\* the outcome a of is_allowed on a store that keeps no expiry
Unexpiring(a) == [a EXCEPT !.st.expiry = <<>>]

\* the wall clock advances by one second
Pass ==
  /\ now - Epoch < MaxAge
  /\ now' = now + 1
  /\ UNCHANGED <<strategy, default_limit, default_window, storage, hist, solo, threads, heap>>

\* RateLimiter.check(identifier), on both stores
CheckUnexpiring(identifier) ==
  /\ Len(hist) < MaxOps + 1
  /\ Returned(identifier, default_limit, default_window, Omitted,
              RateLimiterCheck(strategy, storage, default_limit, default_window,
                               identifier, Omitted, Omitted, now),
              Unexpiring(RateLimiterCheck(strategy, solo[identifier], default_limit,
                                          default_window, identifier, Omitted, Omitted,
                                          now)))

NextExpiry ==
  \/ CheckUnexpiring(Id)
  \/ Pass
  \/ Idle

SpecExpiry == Init /\ [][NextExpiry]_vars

\* ------------------------------------------------------------------------
\* Two identifiers on a sliding window or fixed window limiter whose store
\* sweeps every cleanup_interval seconds, with a window long enough for a
\* check to be denied seconds after the last admission. hist holds the last
\* call only.
\* ------------------------------------------------------------------------
InitSweeping ==
  /\ strategy \in {SlidingWindow, FixedWindow}
  /\ default_limit \in 1..MaxLimit
  /\ default_window = MaxWindow
  /\ now = Epoch
  /\ storage \in {NewStorage(i, Epoch) : i \in CleanupIntervals}
  /\ hist = <<>>
  /\ solo = [i \in Ids |-> NewStorage(CleanupIntervalDefault, Epoch)]
  /\ threads = NoThreads
  /\ heap = <<>>

NextSweeping ==
  \/ \E i \in Ids : CheckWith(i, Omitted, Omitted)
  \/ Pass

SpecSweeping == InitSweeping /\ [][NextSweeping]_vars

\* ------------------------------------------------------------------------
\* Token bucket polled second by second for one window
\* ------------------------------------------------------------------------
InitPolling ==
  /\ Fresh({TokenBucket}, 1..MaxLimit, 1..MaxPollWindow)
  /\ threads = NoThreads

\* the wall clock advances by one second, for window_seconds at most
Second ==
  /\ now - Epoch < default_window
  /\ now' = now + 1
  /\ UNCHANGED <<strategy, default_limit, default_window, storage, hist, solo, threads, heap>>

NextPolling ==
  \/ Check(Id)
  \/ Second

SpecPolling == InitPolling /\ [][NextPolling]_vars

\* ------------------------------------------------------------------------
\* Fixed window: check and reset on the identifier "a" and on identifiers
\* "a:<integer>", the integers being window ids of the time of construction
\* ------------------------------------------------------------------------
NestedIds == {Id} \cup {Append(Id, WindowId(Epoch, w)) : w \in 1..MaxWindow}

InitNested ==
  /\ strategy = FixedWindow
  /\ default_limit \in 1..MaxLimit
  /\ default_window \in 1..MaxWindow
  /\ now = Epoch
  /\ storage = NewStorage(CleanupIntervalDefault, Epoch)
  /\ hist = <<>>
  /\ solo = [i \in NestedIds |-> NewStorage(CleanupIntervalDefault, Epoch)]
  /\ threads = NoThreads
  /\ heap = <<>>

NextNested ==
  \/ \E i \in NestedIds : Check(i)
  \/ \E i \in NestedIds : Reset(i)
  \/ Tick

SpecNested == InitNested /\ [][NextNested]_vars

\* ------------------------------------------------------------------------
\* InMemoryStorage called from several threads. Every public method runs
\* `with self._lock:` (storage.py, lines 90, 109, 120, 128, 157); under the
\* lock a thread executes the statements of the method one at a time.
\* heap holds the owner of the lock, threads what each thread is executing,
\* hist the last call that returned.
\* ------------------------------------------------------------------------
Callers == 1..NumThreads

\* the calls a thread can make
StorageCalls ==
  {[op |-> "get", key |-> k, value |-> 0, ttl |-> Omitted] : k \in Ids}
  \cup {[op |-> "set", key |-> k, value |-> v, ttl |-> l] :
          k \in Ids, v \in {1}, l \in {Omitted, TestCleanupInterval}}
  \cup {[op |-> "delete", key |-> k, value |-> 0, ttl |-> Omitted] : k \in Ids}
  \cup {[op |-> o, key |-> Id, value |-> 0, ttl |-> Omitted] : o \in {"clear", "get_stats"}}

\* a thread outside every method
NoCall == [pc |-> "idle", call |-> [op |-> "none", key |-> Id, value |-> 0, ttl |-> Omitted],
           at |-> 0, before |-> <<>>, pending |-> {}, current_time |-> 0, key |-> Id]

\* the first statement of each method
FirstStatement(op) ==
  CASE op = "get" -> "cleanup"
    [] op = "set" -> "set_data"
    [] op = "delete" -> "delete_data"
    [] op = "clear" -> "clear_data"
    [] op = "get_stats" -> "stats"

\* with self._lock: the lock can be taken when no thread owns it
LockAlwaysFree(owner) == TRUE

LockFree(owner) == owner = <<>>

\* the statement leaves the thread at pc, still inside the method
Goes(st, th, pc) == [st |-> st, th |-> [th EXCEPT !.pc = pc], returns |-> FALSE, value |-> None]

\* the statement is the last of the method, which returns value
Leaves(st, th, value) == [st |-> st, th |-> th, returns |-> TRUE, value |-> value]

\* get_stats, lines 158-168
GetStats(st, t) ==
  [total_keys |-> Cardinality(DOMAIN st.data),
   expired_keys |-> Cardinality(ExpiredKeys(st, t)),
   active_keys |-> Cardinality(DOMAIN st.data) - Cardinality(ExpiredKeys(st, t))]

\* the statement at th.pc, executed on the storage st at time t; k is the key
\* the sweep takes next from expired_keys
Statement(st, th, t, k) ==
  CASE th.pc = "cleanup" ->                                     \* lines 134-143
         IF t - st.last_cleanup < st.cleanup_interval THEN Goes(st, th, "lookup")
         ELSE Goes([st EXCEPT !.last_cleanup = t],
                   [th EXCEPT !.pending = ExpiredKeys(st, t), !.current_time = t],
                   IF ExpiredKeys(st, t) = {} THEN "lookup" ELSE "sweep_data")
    [] th.pc = "sweep_data" ->                                  \* lines 145-147
         Goes([st EXCEPT !.data = Restrict(st.data, DOMAIN st.data \ {k})],
              [th EXCEPT !.key = k], "sweep_expiry")
    [] th.pc = "sweep_expiry" ->                                \* line 148
         Goes([st EXCEPT !.expiry = Restrict(st.expiry, DOMAIN st.expiry \ {th.key})],
              [th EXCEPT !.pending = th.pending \ {th.key}],
              IF th.pending = {th.key} THEN "lookup" ELSE "sweep_data")
    [] th.pc = "lookup" ->                                      \* lines 94-105
         IF th.call.key \notin DOMAIN st.data THEN Leaves(st, th, None)
         ELSE IF th.call.key \in DOMAIN st.expiry /\ t > st.expiry[th.call.key]
           THEN Goes(st, th, "expire_data")
         ELSE Leaves(st, th, Some(st.data[th.call.key]))
    [] th.pc = "expire_data" ->                                 \* line 101
         Goes([st EXCEPT !.data = Restrict(st.data, DOMAIN st.data \ {th.call.key})],
              th, "expire_expiry")
    [] th.pc = "expire_expiry" ->                               \* lines 102-103
         Leaves([st EXCEPT !.expiry = Restrict(st.expiry, DOMAIN st.expiry \ {th.call.key})],
                th, None)
    [] th.pc = "set_data" ->                                    \* line 110
         Goes([st EXCEPT !.data = Put(st.data, th.call.key, th.call.value)],
              th, "set_expiry")
    [] th.pc = "set_expiry" ->                                  \* lines 112-116
         Leaves([st EXCEPT !.expiry =
                   IF th.call.ttl # Omitted THEN Put(st.expiry, th.call.key, t + th.call.ttl)
                   ELSE Restrict(st.expiry, DOMAIN st.expiry \ {th.call.key})],
                th, None)
    [] th.pc = "delete_data" ->                                 \* lines 121-122
         Goes([st EXCEPT !.data = Restrict(st.data, DOMAIN st.data \ {th.call.key})],
              th, "delete_expiry")
    [] th.pc = "delete_expiry" ->                               \* lines 123-124
         Leaves([st EXCEPT !.expiry = Restrict(st.expiry, DOMAIN st.expiry \ {th.call.key})],
                th, None)
    [] th.pc = "clear_data" ->                                  \* line 129
         Goes([st EXCEPT !.data = <<>>], th, "clear_expiry")
    [] th.pc = "clear_expiry" ->                                \* line 130
         Leaves([st EXCEPT !.expiry = <<>>], th, None)
    [] th.pc = "stats" ->                                       \* lines 158-168
         Leaves(st, th, Some(GetStats(st, t)))

InitLocked ==
  /\ strategy = TokenBucket
  /\ default_limit = 1
  /\ default_window = 1
  /\ now = Epoch
  /\ storage = NewStorage(TestCleanupInterval, Epoch)
  /\ hist = <<>>
  /\ solo = [i \in Ids |-> NewStorage(CleanupIntervalDefault, Epoch)]
  /\ threads = [t \in Callers |-> NoCall]
  /\ heap = <<>>

\* thread t calls a method and enters its `with self._lock:` block
Enter(t, c) ==
  /\ threads[t].pc = "idle"
  /\ LockFree(heap)
  /\ heap' = <<t>>
  /\ threads' = [threads EXCEPT ![t] = [NoCall EXCEPT !.pc = FirstStatement(c.op),
                                                       !.call = c, !.at = now,
                                                       !.before = storage]]
  /\ UNCHANGED <<strategy, default_limit, default_window, now, storage, hist, solo>>

\* the statement of thread t had the outcome r: the thread goes on, or leaves
\* the method and the `with` block
Executed(t, r) ==
  /\ storage' = r.st
  /\ threads' = [threads EXCEPT ![t] = IF r.returns THEN NoCall ELSE r.th]
  /\ heap' = IF r.returns THEN <<>> ELSE heap
  /\ hist' = IF r.returns
               THEN <<[op |-> r.th.call.op, key |-> r.th.call.key,
                       value |-> r.th.call.value, ttl |-> r.th.call.ttl,
                       at |-> r.th.at, now |-> now, before |-> r.th.before,
                       returned |-> r.value, thread |-> t]>>
               ELSE hist
  /\ UNCHANGED <<strategy, default_limit, default_window, now, solo>>

\* thread t executes its next statement
Execute(t) ==
  /\ threads[t].pc # "idle"
  /\ \E k \in (IF threads[t].pc = "sweep_data" THEN threads[t].pending ELSE {Id}) :
       Executed(t, Statement(storage, threads[t], now, k))

NextLocked ==
  \/ \E t \in Callers, c \in StorageCalls : Enter(t, c)
  \/ \E t \in Callers : Execute(t)
  \/ Tick

SpecLocked == InitLocked /\ [][NextLocked]_vars

\* ------------------------------------------------------------------------
\* Reading the history
\* ------------------------------------------------------------------------
Checks == {j \in 1..Len(hist) : hist[j].op = "check"}

\* the calls before j on the identifier of call j
Before(j) == {k \in 1..(j - 1) : hist[k].id = hist[j].id}

\* call j and every earlier call on its identifier are checks made at one
\* instant with one limit and window, the first of them on a fresh identifier
Burst(j) ==
  /\ j \in Checks
  /\ \A k \in Before(j) :
       /\ hist[k].op = "check"
       /\ hist[k].now = hist[j].now /\ hist[k].ct = hist[j].ct
       /\ hist[k].limit = hist[j].limit /\ hist[k].window = hist[j].window

\* the time a check was made at, as its caller gave it
AskedAt(j) == IF hist[j].ct = Omitted THEN hist[j].now ELSE hist[j].ct

\* every concurrent call has returned
AllReturned ==
  /\ threads # NoThreads
  /\ \A t \in DOMAIN threads : threads[t].pc = "done"

\* C1: limit + K (K > 0) concurrent checks of one identifier, from a fresh
\* state and with no time advance: under every interleaving of their get and
\* set steps exactly `limit` of them return allowed, for all three strategies
C1_NoDoubleAdmission ==
  (AllReturned /\ ~WasReset /\ NumThreads > default_limit) =>
    Cardinality({j \in Checks : hist[j].allowed}) = default_limit

\* the requests that the state stored for the identifier accounts for
StoredUse ==
  IF ThreadKey \notin DOMAIN storage.data THEN 0
  ELSE IF strategy = TokenBucket
    THEN default_limit - FTrunc(storage.data[ThreadKey].tokens)
  ELSE IF strategy = SlidingWindow THEN Len(storage.data[ThreadKey])
  ELSE heap[storage.data[ThreadKey]].count

\* the calls that read the stored state after reset returned, and were allowed
AdmittedAfterReset ==
  {t \in DOMAIN threads : threads[t].fresh /\ threads[t].allowed}

\* C2: no lost update: once reset(id) has returned and every check(id) has
\* finished, the state stored for id is not a state read before the reset
\* and written back after it: it accounts for no more requests than were
\* admitted by the checks that read it after the reset
C2_NoLostUpdate ==
  (AllReturned /\ WasReset) => StoredUse <= Cardinality(AdmittedAfterReset)

\* C3: token bucket and fixed window, on an identifier with no prior state and
\* with no time advance: the first `limit` checks are allowed, the (limit+1)-th
\* and every later one is denied
C3_BurstUpToLimit ==
  strategy \in {TokenBucket, FixedWindow} =>
    \A j \in Checks :
      Burst(j) => (hist[j].allowed <=> Cardinality(Before(j)) + 1 <= hist[j].limit)

C3_Witness ==
  /\ strategy \in {TokenBucket, FixedWindow}
  /\ \E j \in Checks :
       /\ Burst(j) /\ Cardinality(Before(j)) = hist[j].limit /\ ~hist[j].allowed
       /\ \A k \in Before(j) : hist[k].allowed

\* the outcome of the first check ever made on an identifier, at the time,
\* limit and window of call j
FirstEver(j) ==
  Outcome(IsAllowed(strategy, NewStorage(CleanupIntervalDefault, Epoch), hist[j].id,
                    hist[j].limit, hist[j].window, hist[j].ct, hist[j].now))

\* call j is the first call on its identifier after a reset of that identifier
RightAfterReset(j) ==
  /\ j \in Checks
  /\ \E k \in Before(j) :
       /\ hist[k].op = "reset"
       /\ \A m \in Before(j) : m <= k

\* C4: after reset(id) the next check(id) returns the decision and the
\* metadata of the first check on a never-seen identifier, for every strategy
C4_ResetForgets ==
  \A j \in Checks : RightAfterReset(j) => Outcome(hist[j]) = FirstEver(j)

\* C5: the decision and the remaining of a check on one identifier are what
\* they would be had no check on another identifier ever happened
C5_Isolation ==
  \A j \in Checks :
    /\ hist[j].allowed = hist[j].alone.allowed
    /\ hist[j].metadata.remaining = hist[j].alone.metadata.remaining

C5_Witness ==
  \E j \in Checks :
    /\ hist[j].allowed
    /\ \E k \in 1..(j - 1) :
         /\ hist[k].op = "check" /\ hist[k].id # hist[j].id
         /\ hist[k].now = hist[j].now /\ hist[k].metadata.remaining = 0

\* C6: every check returns 0 <= remaining <= limit
C6_RemainingInRange ==
  \A j \in Checks :
    /\ 0 <= hist[j].metadata.remaining
    /\ hist[j].metadata.remaining <= hist[j].metadata.limit

\* C7: retry_after is greater than 0 exactly when the check was denied
C7_RetryAfterIffDenied ==
  \A j \in Checks : (hist[j].metadata.retry_after > 0) <=> ~hist[j].allowed

\* the checks on the identifier of call j, up to j, that were admitted at a
\* time in the interval (AskedAt(j) - window, AskedAt(j)]
AdmittedInTrailingWindow(j) ==
  {k \in 1..j : /\ hist[k].op = "check" /\ hist[k].id = hist[j].id /\ hist[k].allowed
                /\ AskedAt(k) > AskedAt(j) - hist[j].window
                /\ AskedAt(k) <= AskedAt(j)}

\* the calls up to j were made at non-decreasing times, and those on the
\* identifier of call j were all checks
ChecksInOrderUpTo(j) ==
  /\ \A k \in 1..(j - 1) : AskedAt(k) <= AskedAt(k + 1)
  /\ \A k \in Before(j) : hist[k].op = "check"

EmptiedThenWaited(j) ==
  /\ j \in Checks
  /\ j = hist[j].limit + 1
  /\ \A k \in 1..(j - 1) :
       /\ hist[k].op = "check" /\ hist[k].allowed /\ hist[k].id = hist[j].id
       /\ hist[k].limit = hist[j].limit /\ hist[k].window = hist[j].window
       /\ AskedAt(k) = AskedAt(1)
  /\ AskedAt(j) = AskedAt(1) + hist[j].window

\* C9: token bucket: after `limit` admitted checks at t0 have emptied the
\* bucket, one check at t0 + window_seconds is allowed with remaining
\* limit - 1
C9_RefillAfterWindow ==
  strategy = TokenBucket =>
    \A j \in Checks :
      EmptiedThenWaited(j) =>
        hist[j].allowed /\ hist[j].metadata.remaining = hist[j].limit - 1

\* test_old_requests_expire_from_window: the times of the calls, and which of
\* them the test expects admitted
ScenarioTimes == <<0, 1, 2, 3, 11>>

ScenarioAdmitted == <<TRUE, TRUE, TRUE, FALSE, TRUE>>

\* the calls so far begin with the first j calls of the scenario
ScenarioPrefix(j) ==
  /\ j <= Len(ScenarioTimes)
  /\ \A k \in 1..j :
       /\ hist[k].op = "check" /\ hist[k].ct = ScenarioTimes[k]
       /\ hist[k].limit = TestLimit /\ hist[k].window = TestWindow

\* C10: sliding window, limit 3, window 10, checks at current_time 0, 1, 2,
\* 3, 11: those at 0, 1, 2 are admitted, that at 3 is denied, that at 11 is
\* admitted with remaining 0
C10_SlidingScenario ==
  strategy = SlidingWindow =>
    \A j \in 1..Len(hist) :
      ScenarioPrefix(j) =>
        /\ hist[j].allowed = ScenarioAdmitted[j]
        /\ j = Len(ScenarioTimes) => hist[j].metadata.remaining = 0

C10_Witness ==
  /\ strategy = SlidingWindow
  /\ Len(hist) >= Len(ScenarioTimes)
  /\ ScenarioPrefix(Len(ScenarioTimes))
  /\ hist[Len(ScenarioTimes)].allowed
  /\ hist[Len(ScenarioTimes)].metadata.remaining = 0

\* test_counter_resets_at_window_boundary: the times of the calls, and which
\* of them are to be admitted
BoundaryTimes == <<0, 1, 2, 9, 10>>

BoundaryAdmitted == <<TRUE, TRUE, TRUE, FALSE, TRUE>>

\* the calls so far begin with the first j calls of that scenario
BoundaryPrefix(j) ==
  /\ j <= Len(BoundaryTimes)
  /\ \A k \in 1..j :
       /\ hist[k].op = "check" /\ hist[k].ct = BoundaryTimes[k]
       /\ hist[k].limit = TestLimit /\ hist[k].window = TestWindow

\* C11: fixed window, limit 3, window 10, checks at current_time 0, 1, 2, 9,
\* 10: those at 0, 1, 2 are admitted, that at 9 is denied, that at 10 is
\* admitted with remaining 2
C11_FixedScenario ==
  strategy = FixedWindow =>
    \A j \in 1..Len(hist) :
      BoundaryPrefix(j) =>
        /\ hist[j].allowed = BoundaryAdmitted[j]
        /\ j = Len(BoundaryTimes) => hist[j].metadata.remaining = 2

\* C12: fixed window, sequential checks at non-decreasing times with fixed
\* limit and window: the requests admitted in any interval of length
\* window_seconds never exceed 2 * limit
C12_AtMostTwiceLimit ==
  strategy = FixedWindow =>
    \A j \in Checks :
      ChecksInOrderUpTo(j) =>
        Cardinality(AdmittedInTrailingWindow(j)) <= 2 * hist[j].limit

\* the boundary burst: 2 * limit requests admitted at times, none of them 0,
\* less than window_seconds apart
C12_Witness ==
  /\ strategy = FixedWindow
  /\ \E j \in Checks :
       /\ ChecksInOrderUpTo(j)
       /\ \A k \in 1..j : hist[k].ct > 0
       /\ Cardinality(AdmittedInTrailingWindow(j)) = 2 * hist[j].limit

\* the last call was reset(Id)
JustReset == hist # <<>> /\ hist[Len(hist)].op = "reset" /\ hist[Len(hist)].id = Id

\* C13: reset is idempotent: a reset(id) that directly follows a reset(id)
\* leaves the storage as the first one left it, for every strategy and
\* whether or not id had stored state
C13_ResetIdempotent == [][(JustReset /\ Reset(Id)) => storage' = storage]_vars

C13_Witness ==
  /\ Len(hist) >= 3
  /\ hist[Len(hist)].op = "reset" /\ hist[Len(hist) - 1].op = "reset"
  /\ hist[Len(hist) - 2].op = "check" /\ hist[Len(hist) - 2].allowed
  /\ Id \notin DOMAIN storage.data

\* the last call was storage.get
LastGet == hist # <<>> /\ hist[1].op = "get"

\* C14: get never returns the value of an entry whose expiry is earlier than
\* the current time, whether or not a sweep has run since it expired
C14_NoExpiredRead ==
  (LastGet /\ hist[1].returned # None) =>
    (hist[1].expiry = None \/ hist[1].expiry[1] >= hist[1].now)

\* get found an expired entry still in the store, ran no sweep, and returned
\* None
C14_Witness ==
  /\ LastGet
  /\ hist[1].held # None
  /\ hist[1].expiry # None /\ hist[1].expiry[1] < hist[1].now
  /\ ~hist[1].sweep
  /\ hist[1].returned = None


\* the last request the middleware dispatched
LastDispatch == hist[Len(hist)]

IsDispatch == Len(hist) > 0 /\ LastDispatch.op = "dispatch"

\* the request reached self.limiter.check and check returned
CheckReturned == IsDispatch /\ LastDispatch.checked # None

\* C15: for every non-exempt request whose identifier resolves, the limit and
\* the window check works with are those of the override-table entry of the
\* request path when there is one (5 per 300 s for the login path), and the
\* defaults otherwise.
C15_EffectiveQuota ==
  CheckReturned =>
    /\ LastDispatch.checked[1].limit = GetEndpointLimit(LastDispatch.path).limit
    /\ LastDispatch.checked[1].window = GetEndpointLimit(LastDispatch.path).window

\* a login request was checked
C15_Witness ==
  /\ CheckReturned
  /\ LastDispatch.path = "/v1/auth/login"


\* how many times the downstream handler was invoked, and where
HandlerCalls(events) == Cardinality({i \in 1..Len(events) : events[i] = "handler"})

HandlerAfterCheck(events) ==
  \A i, j \in 1..Len(events) :
    (events[i] = "handler" /\ events[j] = "check") => j < i

\* C16: for every non-exempt request with a resolved identifier, the
\* downstream handler is invoked exactly once, and after check returned, when
\* check allowed the request, and is not invoked when check denied it.
C16_HandlerFollowsCheck ==
  CheckReturned =>
    /\ "check" \in {LastDispatch.events[i] : i \in 1..Len(LastDispatch.events)}
    /\ HandlerAfterCheck(LastDispatch.events)
    /\ HandlerCalls(LastDispatch.events) = (IF LastDispatch.allowed[1] THEN 1 ELSE 0)

\* a request was denied and the handler was not invoked
C16_Witness ==
  /\ CheckReturned
  /\ ~LastDispatch.allowed[1]
  /\ HandlerCalls(LastDispatch.events) = 0

\* a request was allowed and the handler was invoked once
C16_WitnessAllowed ==
  /\ CheckReturned
  /\ LastDispatch.allowed[1]
  /\ HandlerCalls(LastDispatch.events) = 1


\* the request was denied and the middleware answered it itself
DeniedResponse == CheckReturned /\ ~LastDispatch.allowed[1]

\* C17: every response the middleware produces for a denied check has status
\* 429 and carries the four headers Retry-After, X-RateLimit-Limit,
\* X-RateLimit-Remaining and X-RateLimit-Reset, whatever metadata the strategy
\* returned with the denial.
C17_DeniedResponseHeaders ==
  DeniedResponse =>
    /\ LastDispatch.response[1].status = 429
    /\ {"Retry-After", "X-RateLimit-Limit", "X-RateLimit-Remaining", "X-RateLimit-Reset"}
         \subseteq DOMAIN LastDispatch.response[1].headers

\* a denied request answered with 429 and the four headers
C17_Witness ==
  /\ DeniedResponse
  /\ LastDispatch.response[1].status = 429
  /\ DOMAIN LastDispatch.response[1].headers =
       {"Retry-After", "X-RateLimit-Limit", "X-RateLimit-Remaining", "X-RateLimit-Reset"}


\* the identifier resolver raised for a request on a rate limited path
ResolverRaised ==
  /\ IsDispatch
  /\ LastDispatch.path \notin SkipPaths
  /\ LastDispatch.who = Unresolved

\* C18: when the identifier resolver raises for a non-exempt request, the
\* request is forwarded to the downstream handler exactly once, the handler's
\* response is returned without rate-limit headers, check is not called, the
\* limiter state is unchanged, and no exception leaves dispatch.
C18_FailOpenOnResolver ==
  ResolverRaised =>
    /\ HandlerCalls(LastDispatch.events) = 1
    /\ LastDispatch.response = Some(Downstream)
    /\ DOMAIN LastDispatch.response[1].headers = {}
    /\ \A i \in 1..Len(LastDispatch.events) : LastDispatch.events[i] # "check"
    /\ LastDispatch.checked = None
    /\ storage = LastDispatch.before
    /\ ~LastDispatch.raised

\* the resolver raised while the limiter held state, and the request was forwarded
C18_Witness ==
  /\ ResolverRaised
  /\ LastDispatch.before.data # <<>>
  /\ LastDispatch.events = <<"resolve", "handler">>


\* the storage raised during the check of a request
StorageRaised ==
  /\ IsDispatch
  /\ LastDispatch.path \notin SkipPaths
  /\ LastDispatch.who # Unresolved
  /\ ~LastDispatch.storage_up

\* C19: when the storage raises during the check performed for a request, the
\* middleware catches the error and forwards the request to the downstream
\* handler as if it were allowed; the error does not leave dispatch.
C19_FailOpenOnStorage ==
  StorageRaised =>
    /\ ~LastDispatch.raised
    /\ HandlerCalls(LastDispatch.events) = 1
    /\ LastDispatch.response # None

\* the storage raised during a check
C19_Witness ==
  /\ StorageRaised
  /\ LastDispatch.events = <<"resolve", "check">>


\* the request's path is in skip_paths
ExemptRequest == IsDispatch /\ LastDispatch.path \in SkipPaths

\* C20: for a request whose path is in skip_paths, the downstream handler is
\* invoked exactly once and its response is returned unmodified; no identifier
\* is resolved, check is not called, and the limiter state is unchanged,
\* whatever the quota of any identifier.
C20_ExemptPath ==
  ExemptRequest =>
    /\ LastDispatch.events = <<"handler">>
    /\ LastDispatch.response = Some(Downstream)
    /\ LastDispatch.checked = None
    /\ storage = LastDispatch.before
    /\ ~LastDispatch.raised

\* an exempt request went through while an identifier had used up its quota
C20_Witness ==
  /\ ExemptRequest
  /\ LastDispatch.events = <<"handler">>
  /\ strategy = "fixed_window"
  /\ \E k \in DOMAIN storage.data : storage.data[k].count >= default_limit


\* the last call was a check
LastCall == hist[Len(hist)]

LastIsCheck == hist # <<>> /\ LastCall.op = "check"

\* a limiter exists only with positive defaults
C21_ConstructionFailsFast == default_limit >= 1 /\ default_window >= 1

\* a check whose limit or window is not positive raises and stores nothing
C21_CheckFailsFast ==
  (LastIsCheck /\ (LastCall.limit <= 0 \/ LastCall.window <= 0)) =>
    /\ LastCall.raised
    /\ storage = LastCall.before

\* C21: constructing a RateLimiter with default_limit <= 0 or
\* default_window <= 0, or calling check with limit <= 0 or window <= 0,
\* signals a configuration error instead of returning a decision, for every
\* strategy, and leaves the stored state unchanged.
C21_ConfigurationErrors == C21_ConstructionFailsFast /\ C21_CheckFailsFast

\* a limiter with positive defaults was asked for a check with limit 0
C21_Witness ==
  /\ LastIsCheck
  /\ default_limit >= 1 /\ default_window >= 1
  /\ LastCall.lim = 0


\* what the bound strategy returns for the last call's identifier with limit
\* L and window W, on the storage the call found
StrategyAnswer(L, W) ==
  IsAllowed(strategy, LastCall.before, LastCall.id, L, W, Omitted, LastCall.now)

SameAnswer(r) ==
  /\ ~LastCall.raised
  /\ LastCall.allowed = r.allowed
  /\ LastCall.metadata = r.metadata
  /\ storage = r.st

\* C22: check(id, limit?, window?) returns exactly what the bound strategy
\* returns for (id, L, W), L being the given limit or else default_limit, W
\* the given window or else default_window; the defaults stay what they were
\* whatever a call passed.
C22_CheckDelegates ==
  LastIsCheck =>
    SameAnswer(StrategyAnswer(
      IF LastCall.lim = Omitted THEN default_limit ELSE LastCall.lim,
      IF LastCall.win = Omitted THEN default_window ELSE LastCall.win))

\* a call on a used limiter that gave a limit other than the default and no window
C22_Witness ==
  /\ LastIsCheck
  /\ LastCall.lim \notin {Omitted, default_limit}
  /\ LastCall.win = Omitted
  /\ LastCall.before.data # <<>>


\* the last call was get_limits
LastIsGetLimits == hist # <<>> /\ LastCall.op = "get_limits"

\* what check(id) would return now on the storage st
NextCheck(st) ==
  Outcome(RateLimiterCheck(strategy, st, default_limit, default_window,
                           LastCall.id, Omitted, Omitted, now))

\* C23: get_limits(id) consumes nothing: for every strategy and every state,
\* the next check(id) returns what it would have returned had get_limits not
\* been called.
C23_GetLimitsConsumesNothing ==
  LastIsGetLimits => NextCheck(storage) = NextCheck(LastCall.before)

\* get_limits was called on an identifier that had requests left
C23_Witness ==
  /\ LastIsGetLimits
  /\ NextCheck(LastCall.before).allowed


\* the end of the fixed window that holds time t
WindowEnd(t, w) == ((t \div w) + 1) * w

\* C24: fixed window: every check at time t with window w returns
\* reset_at = (floor(t / w) + 1) * w, a multiple of w greater than t, whatever
\* the time of the identifier's first request in the window and whether the
\* check is allowed or denied.
C24_FixedResetAt ==
  strategy = FixedWindow =>
    \A j \in Checks :
      /\ hist[j].metadata.reset_at = WindowEnd(AskedAt(j), hist[j].window)
      /\ hist[j].metadata.reset_at % hist[j].window = 0
      /\ hist[j].metadata.reset_at > AskedAt(j)

\* a denied check at time 3 of the window that starts at 0, first used at
\* time 1, returned reset_at = 10
C24_Witness ==
  /\ strategy = FixedWindow
  /\ \E j \in Checks :
       /\ hist[j].ct = 3 /\ hist[j].window = TestWindow
       /\ ~hist[j].allowed
       /\ hist[j].metadata.reset_at = TestWindow
       /\ \A k \in Before(j) : hist[k].ct >= 1


\* the last storage call was set
LastSet == hist # <<>> /\ hist[1].op = "set"

\* the keys stored without an expiry
Lasting(st) == DOMAIN st.data \ DOMAIN st.expiry

\* C25: after set(key, v) without a ttl the key has no expiry, even if an
\* earlier set gave it one, and get(key) returns v at every later time until
\* the key is overwritten, deleted or cleared; set with a ttl replaces any
\* earlier expiry by now + ttl.
C25_SetReplacesExpiry ==
  /\ LastSet =>
       /\ storage.data[hist[1].key] = hist[1].value
       /\ IF hist[1].ttl = Omitted
            THEN hist[1].key \in Lasting(storage)
            ELSE storage.expiry[hist[1].key] = hist[1].now + hist[1].ttl
  /\ LastGet =>
       /\ \A k \in Lasting(hist[1].before) :
            k \in Lasting(storage) /\ storage.data[k] = hist[1].before.data[k]
       /\ hist[1].key \in Lasting(hist[1].before) => hist[1].returned = hist[1].held

\* set without a ttl on a key that had an expiry
C25_Witness ==
  /\ LastSet
  /\ hist[1].ttl = Omitted
  /\ hist[1].expiry # None

\* get of a key without expiry, in a call that swept the store, found its value
C25_WitnessGet ==
  /\ LastGet
  /\ hist[1].sweep
  /\ hist[1].key \in Lasting(hist[1].before)
  /\ hist[1].returned # None


\* the bucket stored for the identifier of the last check
LastBucket == storage.data[hist[Len(hist)].id]

\* C26: token bucket: after every check, allowed or denied, at
\* non-decreasing times and with any limit >= 1 and window >= 1, the stored
\* tokens of the identifier are at least 0 and at most the limit of that call.
C26_TokensInRange ==
  (strategy = TokenBucket /\ hist # <<>> /\ hist[Len(hist)].op = "check") =>
    /\ FCmp(FZero, LastBucket.tokens) <= 0
    /\ FCmp(LastBucket.tokens, FFromInt(hist[Len(hist)].limit)) <= 0

\* a denied check left a bucket with less than one token and not less than none
C26_Witness ==
  /\ strategy = TokenBucket /\ hist # <<>> /\ hist[Len(hist)].op = "check"
  /\ ~hist[Len(hist)].allowed
  /\ FCmp(FZero, LastBucket.tokens) <= 0
  /\ FCmp(LastBucket.tokens, FFromInt(1)) < 0


\* the log stored for the identifier of the last check; get returns None for a
\* key that is not stored and the strategy reads that as an empty log
LastLog ==
  IF hist[Len(hist)].id \in DOMAIN storage.data
    THEN storage.data[hist[Len(hist)].id] ELSE <<>>

\* C27: sliding window: after every check at time t, allowed or denied, at
\* non-decreasing times, per-call limits and windows included, every
\* timestamp in the log stored for the identifier lies in
\* (t - window_seconds, t].
C27_LogInWindow ==
  (strategy = SlidingWindow /\ LastIsCheck) =>
    \A i \in 1..Len(LastLog) :
      /\ LastCall.now - LastCall.window < LastLog[i]
      /\ LastLog[i] <= LastCall.now

\* a denied check left a log of timestamps that are all in its window
C27_Witness ==
  /\ strategy = SlidingWindow /\ LastIsCheck
  /\ ~LastCall.allowed
  /\ LastLog # <<>>
  /\ \A i \in 1..Len(LastLog) : LastCall.now - LastCall.window < LastLog[i]


\* the last check of the history, and whether the token bucket made it
LastCheck == hist[Len(hist)]

TokenBucketChecked ==
  strategy = TokenBucket /\ hist # <<>> /\ LastCheck.op = "check"

\* C28: token bucket: after any check at time t, allowed or denied, the state
\* stored for the identifier has last_refill = t and tokens equal to the token
\* count after the decision (the one `remaining` reports), and was written
\* with a TTL of 2 * window_seconds.
C28_BucketPersisted ==
  TokenBucketChecked =>
    /\ LastCheck.id \in DOMAIN storage.data
    /\ LastBucket.last_refill = AskedAt(Len(hist))
    /\ FTrunc(LastBucket.tokens) = LastCheck.metadata.remaining
    /\ storage.expiry[LastCheck.id] = LastCheck.now + 2 * LastCheck.window

\* a denied check stored its time as last_refill
C28_Witness ==
  /\ TokenBucketChecked
  /\ ~LastCheck.allowed
  /\ LastBucket.last_refill = AskedAt(Len(hist))
  /\ \E j \in Before(Len(hist)) : hist[j].ct < LastCheck.ct


\* the window that holds the time of call j
WindowOf(j) == AskedAt(j) \div hist[j].window

\* the requests admitted for the identifier in window wid
AdmittedIn(identifier, wid) ==
  {j \in Checks : hist[j].id = identifier /\ hist[j].allowed /\ WindowOf(j) = wid}

\* call j is the first check of its identifier in its window
FirstInWindow(j) == \A k \in Before(j) : hist[k].op = "check" => WindowOf(k) # WindowOf(j)

\* C29: fixed window, sequential calls with one limit and one window: the
\* count stored for (identifier, window_id) is the number of requests
\* admitted for the identifier at times t with floor(t / window_seconds) =
\* window_id, and is at most limit; the first check in a window not seen
\* before is admitted with remaining = limit - 1.
C29_CountPerWindow ==
  strategy = FixedWindow =>
    /\ \A key \in DOMAIN storage.data :
         /\ storage.data[key].count =
              Cardinality(AdmittedIn(SubSeq(key, 1, Len(key) - 1), key[Len(key)]))
         /\ storage.data[key].count <= default_limit
    /\ \A j \in Checks :
         FirstInWindow(j) =>
           hist[j].allowed /\ hist[j].metadata.remaining = hist[j].limit - 1

\* a window was filled, a check was denied in it, and the first check of the
\* next window was admitted with remaining = limit - 1
C29_Witness ==
  /\ strategy = FixedWindow
  /\ \E j, k \in Checks :
       /\ ~hist[j].allowed /\ WindowOf(j) = 0 /\ AskedAt(j) > 0
       /\ Cardinality(AdmittedIn(Id, 0)) = default_limit
       /\ WindowOf(k) = 1 /\ FirstInWindow(k)
       /\ hist[k].allowed /\ hist[k].metadata.remaining = default_limit - 1
       /\ \A i \in Checks : hist[i].ct # 0


\* the set of the last check raised
WriteFailed == LastIsCheck /\ LastCall.raised

\* the key under which the strategy keeps the identifier's state at the time
\* of the last call
StateKey ==
  IF strategy = FixedWindow
    THEN FixedWindowKey(LastCall.id, WindowId(LastCall.now, LastCall.window))
    ELSE LastCall.id

\* C30: if the storage set performed by a check fails, then for every
\* strategy a later get for the identifier returns the state of before the
\* check: no token consumed, no timestamp appended, no counter incremented,
\* also when get hands out the stored object itself.
C30_NoPartialUpdate ==
  WriteFailed =>
    StorageGet(storage, StateKey, now).value =
      StorageGet(LastCall.before, StateKey, now).value

\* the set of a check failed on an identifier that had state in the store
C30_Witness ==
  /\ WriteFailed
  /\ StorageGet(LastCall.before, StateKey, LastCall.now).value # None

\* ------------------------------------------------------------------------
\* C31..C40
\* ------------------------------------------------------------------------

\* the entry of key k is the same in st as it was in b
SameEntry(b, st, k) ==
  /\ k \in DOMAIN st.data /\ st.data[k] = b.data[k]
  /\ (k \in DOMAIN b.expiry) = (k \in DOMAIN st.expiry)
  /\ k \in DOMAIN b.expiry => st.expiry[k] = b.expiry[k]

\* the entry of key k in b has an expiry earlier than t
EntryExpired(b, k, t) == k \in DOMAIN b.expiry /\ b.expiry[k] < t

\* C31: right after a get made at least cleanup_interval after the previous
\* sweep (or construction) no entry with an expiry earlier than the current
\* time is left in the store and every other entry is untouched; a get made
\* sooner removes at most the expired entry of the key it reads.
C31_PeriodicSweep ==
  LastGet =>
    /\ hist[1].sweep =>
         /\ \A k \in DOMAIN storage.data \cup DOMAIN storage.expiry :
              ~EntryExpired(storage, k, hist[1].now)
         /\ storage.last_cleanup = hist[1].now
    /\ \A k \in DOMAIN hist[1].before.data :
         ~EntryExpired(hist[1].before, k, hist[1].now) =>
           SameEntry(hist[1].before, storage, k)
    /\ ~hist[1].sweep =>
         /\ \A k \in DOMAIN hist[1].before.data \ {hist[1].key} :
              SameEntry(hist[1].before, storage, k)
         /\ storage.last_cleanup = hist[1].before.last_cleanup
    /\ DOMAIN storage.data \subseteq DOMAIN hist[1].before.data

\* a get of one key swept the expired entry of the other key and left the
\* entry it read, which expires this very second
C31_Witness ==
  /\ LastGet
  /\ hist[1].sweep
  /\ hist[1].returned # None
  /\ hist[1].expiry = Some(hist[1].now)
  /\ \E k \in DOMAIN hist[1].before.data \ {hist[1].key} :
       EntryExpired(hist[1].before, k, hist[1].now) /\ k \notin DOMAIN storage.data

\* a get made before the interval had passed left the expired entry of the
\* other key in the store
C31_WitnessKept ==
  /\ LastGet
  /\ ~hist[1].sweep
  /\ \E k \in DOMAIN storage.data \ {hist[1].key} :
       EntryExpired(storage, k, hist[1].now)

\* the last call was a check of the sliding window strategy
SlidingWindowChecked ==
  strategy = SlidingWindow /\ hist # <<>> /\ LastCheck.op = "check"

\* C32: sliding window: every check at time t returns reset_at = (oldest
\* timestamp left in the identifier's log after the call) + window_seconds,
\* or t + window_seconds when that log is empty; with limit 3 and window 10,
\* after a request admitted at time 0 a check at time 1 returns reset_at = 10.
C32_SlidingResetAt ==
  SlidingWindowChecked =>
    /\ LastCheck.metadata.reset_at =
         IF LastLog # <<>> THEN SeqMin(LastLog) + LastCheck.window
         ELSE AskedAt(Len(hist)) + LastCheck.window
    /\ (/\ Len(hist) = 2
        /\ hist[1].allowed /\ AskedAt(1) = 0 /\ AskedAt(2) = 1
        /\ LastCheck.limit = TestLimit /\ LastCheck.window = TestWindow) =>
         LastCheck.metadata.reset_at = TestWindow

\* a denied check at a time later than that of the oldest logged request
\* returned that request's time plus the window
C32_Witness ==
  /\ SlidingWindowChecked
  /\ ~LastCheck.allowed
  /\ \A j \in Checks : AskedAt(j) >= 1
  /\ AskedAt(Len(hist)) > SeqMin(LastLog)
  /\ LastCheck.metadata.reset_at = AskedAt(1) + TestWindow

\* the calls made with an explicit current_time
Timed == {j \in Checks : hist[j].ct # Omitted}

\* what the last check left in the store shows its decision time to be t: a
\* bucket refilled at t, a log ending with t, a counter for the window of t
DecidedAt(t) ==
  IF strategy = TokenBucket THEN LastBucket.last_refill = t
  ELSE IF strategy = SlidingWindow
    THEN LastCheck.allowed => (LastLog # <<>> /\ LastLog[Len(LastLog)] = t)
  ELSE LastCheck.allowed =>
         Append(LastCheck.id, t \div LastCheck.window) \in DOMAIN storage.data

\* C33: a check called with an explicit current_time decides at exactly that
\* time, whatever the value, 0 included: with window 10 a check at
\* current_time = 0 is counted in window 0 (fixed window) and logged with
\* timestamp 0 (sliding window).
C33_ExplicitTimeUsed ==
  (hist # <<>> /\ Len(hist) \in Timed) => DecidedAt(LastCheck.ct)

\* an admitted check at an explicit time other than 0 and other than the wall
\* clock's
C33_Witness ==
  /\ hist # <<>> /\ Len(hist) \in Timed
  /\ LastCheck.allowed
  /\ LastCheck.ct \notin {0, LastCheck.now}
  /\ DecidedAt(LastCheck.ct)
  /\ ~DecidedAt(LastCheck.now)

\* check j was made after the entry written by the admitted check before it
\* had passed its ttl
AfterExpiry(j) ==
  /\ j \in Checks /\ j > 1
  /\ hist[j - 1].allowed
  /\ hist[j].now > hist[j - 1].now + 2 * hist[j - 1].window

\* C34: with one limit and one window and checks on the clock of the store,
\* every sequential run of checks returns the same allowed decisions and the
\* same remaining values with entries expiring after 2 * window_seconds as
\* with a store in which entries never expire.
C34_ExpiryTransparent ==
  \A j \in Checks :
    /\ hist[j].allowed = hist[j].alone.allowed
    /\ hist[j].metadata.remaining = hist[j].alone.metadata.remaining

\* the limit was used up, the entry passed its ttl before the sweep interval
\* had, and the next check was admitted
C34_Witness ==
  /\ hist # <<>>
  /\ AfterExpiry(Len(hist))
  /\ LastCheck.now - Epoch < CleanupIntervalDefault
  /\ LastCheck.allowed
  /\ \E j \in Checks : ~hist[j].allowed
  /\ solo[Id].data # <<>> /\ solo[Id].expiry = <<>>

\* check j is the next check after a denied one, made exactly retry_after
\* seconds after it
RetriedOnTime(j) ==
  /\ j \in Checks /\ j > 1
  /\ ~hist[j - 1].allowed
  /\ hist[j].now = hist[j - 1].now + hist[j - 1].metadata.retry_after

\* C35: for every strategy, when a check at time t is denied with
\* retry_after = r, the next check on the identifier, made at t + r with the
\* same limit and window, is allowed.
C35_RetryAfterSufficient ==
  \A j \in Checks : RetriedOnTime(j) => hist[j].allowed

\* a denied check told the caller to wait, and the check made after that
\* wait was admitted
C35_Witness ==
  /\ hist # <<>>
  /\ RetriedOnTime(Len(hist))
  /\ hist[Len(hist) - 1].metadata.retry_after > 0
  /\ LastCheck.allowed

\* the last call was a check that was denied
LastDenied == hist # <<>> /\ LastCall.op = "check" /\ ~LastCall.allowed

\* C36: sliding window and fixed window: a check that returns allowed = false
\* leaves the stored value and the expiry of every key as they were (the
\* pruned log is not stored, no ttl is refreshed).
C36_DeniedWritesNothing ==
  (strategy \in {SlidingWindow, FixedWindow} /\ LastDenied) =>
    /\ storage.data = LastCall.before.data
    /\ storage.expiry = LastCall.before.expiry

\* a denied check on an identifier whose entry, written at an earlier second,
\* is as it was
C36_Witness ==
  /\ strategy \in {SlidingWindow, FixedWindow}
  /\ LastDenied
  /\ \E k \in DOMAIN storage.expiry :
       /\ k \in DOMAIN LastCall.before.expiry
       /\ SubSeq(k, 1, Len(LastCall.id)) = LastCall.id
       /\ storage.expiry[k] < LastCall.now + 2 * LastCall.window
       /\ SameEntry(LastCall.before, storage, k)

\* check j took the last token: it is the limit-th check of a burst on a
\* fresh identifier
Emptied(j) == Burst(j) /\ hist[j].allowed /\ Cardinality(Before(j)) + 1 = hist[j].limit

\* the checks between j and k were denied
DeniedBetween(j, k) == \A i \in (j + 1)..(k - 1) : ~hist[i].allowed

\* check k was made window_seconds / limit after check j
OneTokenLater(j, k) ==
  AskedAt(k) * hist[j].limit = AskedAt(j) * hist[j].limit + hist[j].window

\* C37: token bucket: after the bucket is emptied at t0, a check at
\* t0 + window_seconds / limit is allowed however many denied checks were
\* made in between.
C37_PollingDoesNotStarve ==
  strategy = TokenBucket =>
    \A j \in Checks, k \in Checks :
      (j < k /\ Emptied(j) /\ DeniedBetween(j, k) /\ OneTokenLater(j, k)) =>
        hist[k].allowed

\* the bucket was emptied, a check in between was denied, and the check one
\* token later was allowed
C37_Witness ==
  /\ strategy = TokenBucket
  /\ \E j \in Checks, k \in Checks :
       /\ j + 1 < k /\ Emptied(j) /\ DeniedBetween(j, k) /\ OneTokenLater(j, k)
       /\ AskedAt(j) < AskedAt(j + 1) /\ AskedAt(j + 1) < AskedAt(k)
       /\ hist[k].allowed

\* the requests admitted from the time of check j to window_seconds later
AdmittedInWindowFrom(j) ==
  {k \in Checks : /\ hist[k].id = hist[j].id /\ hist[k].allowed
                  /\ AskedAt(j) <= AskedAt(k)
                  /\ AskedAt(k) <= AskedAt(j) + hist[j].window}

\* C38: token bucket, sequential checks at non-decreasing times with one
\* limit and one window: the requests admitted for an identifier in any
\* interval of length window_seconds never exceed 2 * limit.
C38_TokenBucketRateBound ==
  strategy = TokenBucket =>
    \A j \in Checks :
      ChecksInOrderUpTo(Len(hist)) =>
        Cardinality(AdmittedInWindowFrom(j)) <= 2 * hist[j].limit

\* a full bucket was emptied and, refilled one window later, emptied again:
\* 2 * limit requests admitted at two times, neither of them 0
C38_Witness ==
  /\ strategy = TokenBucket
  /\ ChecksInOrderUpTo(Len(hist))
  /\ \A k \in Checks : AskedAt(k) > 0
  /\ \E j \in Checks :
       /\ Cardinality(AdmittedInWindowFrom(j)) = 2 * hist[j].limit
       /\ \E k \in AdmittedInWindowFrom(j) : AskedAt(k) = AskedAt(j) + hist[j].window

\* call j is a reset of an identifier other than that of call k, made before k
ResetOfOther(j, k) ==
  j < k /\ hist[j].op = "reset" /\ hist[j].id # hist[k].id

\* C39: fixed window: for distinct identifiers A and B, A of the form
\* B:<integer> included, reset(A) leaves the counters of B alone: every check
\* of B returns the decision and the remaining it returns when only the
\* calls on B are made.
C39_ResetIsolation ==
  strategy = FixedWindow =>
    \A k \in Checks :
      /\ hist[k].allowed = hist[k].alone.allowed
      /\ hist[k].metadata.remaining = hist[k].alone.metadata.remaining

\* "a" used up its limit, "a:<integer>" was reset, and the next check of "a"
\* was denied
C39_Witness ==
  /\ strategy = FixedWindow
  /\ hist # <<>> /\ LastCheck.op = "check" /\ LastCheck.id = Id
  /\ ~LastCheck.allowed
  /\ \E j \in 1..Len(hist) :
       /\ ResetOfOther(j, Len(hist))
       /\ \E i \in 1..(j - 1) : hist[i].allowed /\ hist[i].id = Id

\* the threads that are inside a method
Inside == {t \in Callers : threads[t].pc # "idle"}

\* what the call c does as one step on the storage it found, at the time it
\* took the lock: the storage it leaves and the value it returns
Atomically(c) ==
  CASE c.op = "get" -> StorageGet(c.before, c.key, c.at)
    [] c.op = "set" ->
         [st |-> StorageSet(c.before, c.key, c.value, c.ttl, c.at), value |-> None]
    [] c.op = "delete" -> [st |-> StorageDelete(c.before, c.key), value |-> None]
    [] c.op = "clear" -> [st |-> StorageClear(c.before), value |-> None]
    [] c.op = "get_stats" -> [st |-> c.before, value |-> Some(GetStats(c.before, c.at))]

C40_WitnessInside ==
  /\ Inside # {}
  /\ ~(DOMAIN storage.expiry \subseteq DOMAIN storage.data)

====
